---------------------------- MODULE Spec2Model ----------------------------
(***************************************************************************)
(* Model of the invest-portal aggregation-and-scoring engine:              *)
(*   - the recommendation route (scoring engine),                          *)
(*   - the financials route (identifier map, company-facts cache, the two  *)
(*     extractors and mergeRowsPreferFinnhub).                             *)
(*                                                                         *)
(* Numbers.  A JavaScript "number | null" is a record [k, v]: k = "num"    *)
(* for a finite number v, k = "null" for null/undefined, k = "str" for a   *)
(* JSON value that is not a number.  Money amounts, P/E and P/S are        *)
(* integers.  Ratios (revenue_cagr, margins, the 0..1 scales) and the      *)
(* sub-scores are fixed point with FP units per 1.0, every division        *)
(* rounded to nearest.  Math.round is round-half-up.  Where IEEE-754       *)
(* doubles land on the other side of an exact tie (the penalty product,    *)
(* toFixed(2) of the penalty factor, the +/-5% trend threshold) the model  *)
(* follows the doubles; each such place says so.                           *)
(***************************************************************************)
EXTENDS Integers, Sequences, FiniteSets, TLC

VARIABLES
    fin,        \* scoring: the FinancialsPayload the recommendation route received
    rec,        \* scoring: the recommendation route's last response
    rpc,        \* scoring: "idle" (payload received, not scored) or "done"
    prior,      \* scoring: an earlier request, <<payload, response>>, or <<>>
    rec8,       \* scoring: the response of the older version of the route
    mfh,        \* merge: the rows parsed from Finnhub
    msec,       \* merge: the rows built from the SEC facts
    merged,     \* merge: the result of mergeRowsPreferFinnhub
    mpc,        \* merge: "idle" (inputs given) or "done"
    clock,      \* financials: Date.now(), in hours since the process started
    ticks,      \* financials: how many times the clock has advanced
    tickerMap,  \* financials: mem.__sec_cache__.tickerMap, [cached, map]
    tickerMapFetchedAt,   \* financials: mem.__sec_cache__.tickerMapFetchedAt
    companyFacts,         \* financials: mem.__sec_cache__.companyFacts, CIK -> entry
    req,        \* financials: the request being served, its locals and its response
    fhData,     \* reconcile: the body of Finnhub's financials-reported answer
    secFacts,   \* reconcile: the SEC company-facts document
    series,     \* reconcile: the rows built from the two
    spc,        \* reconcile: "raw" (inputs given) or "done"
    fyMap,      \* reconcile: the Map returned by extractAnnualByFY
    built,      \* reconcile: what the two extractors returned, rows and coverage
    calls       \* caches: the calls of the two cached fetch functions, by caller

scoreVars == <<fin, rec, rpc, prior, rec8>>
mergeVars == <<mfh, msec, merged, mpc>>
cacheVars == <<tickerMap, tickerMapFetchedAt, companyFacts>>
finVars == <<clock, ticks, tickerMap, tickerMapFetchedAt, companyFacts, req>>
reconVars == <<fhData, secFacts, series, spc, fyMap, built>>
callVars == <<calls>>
vars == <<fin, rec, rpc, prior, rec8, mfh, msec, merged, mpc,
          clock, ticks, tickerMap, tickerMapFetchedAt, companyFacts, req,
          fhData, secFacts, series, spc, fyMap, built, calls>>

----------------------------------------------------------------------------
(* Optional numbers *)

Null == [k |-> "null", v |-> 0]
Num(x) == [k |-> "num", v |-> x]

isNum(x) == x.k = "num"

FP == 100 * 100

\* years.slice(-3): a series keeps the 3 most recent fiscal years
KEEP_YEARS == 3

clamp(x, lo, hi) == IF x < lo THEN lo ELSE IF x > hi THEN hi ELSE x

\* a / b rounded to the nearest integer (half up), b # 0 of either sign
RDiv(a, b) == IF b > 0 THEN (2 * a + b) \div (2 * b)
                       ELSE (2 * (-a) + (-b)) \div (2 * (-b))

\* a / b as a fixed-point ratio
Ratio(a, b) == RDiv(a * FP, b)

RECURSIVE SqrtBetween(_, _, _)
SqrtBetween(n, lo, hi) ==
    IF lo >= hi THEN lo
    ELSE LET mid == (lo + hi + 1) \div 2
         IN  IF mid * mid <= n THEN SqrtBetween(n, mid, hi)
                               ELSE SqrtBetween(n, lo, mid - 1)

\* floor(sqrt(n)), n < 2^31
ISqrt(n) == SqrtBetween(n, 0, 46340)

SqrtScale == 3 * 100

\* sqrt(a / b) as a fixed-point ratio, a, b > 0:  sqrt(a*b) / b
SqrtRatio(a, b) == RDiv(ISqrt(a * b * SqrtScale * SqrtScale) * FP, SqrtScale * b)

\* Math.round of a fixed-point value
Round(x) == (2 * x + FP) \div (2 * FP)

----------------------------------------------------------------------------
(* The scoring engine's helpers *)

\* Math.pow(last / first, 1 / years) - 1; the series holds at most 3 rows, so
\* years is 1 or 2
cagr(first, last, years) ==
    IF first <= 0 \/ last <= 0 \/ years <= 0 THEN Null
    ELSE IF years = 1 THEN Num(Ratio(last, first) - FP)
    ELSE Num(SqrtRatio(last, first) - FP)

\* chg = b / a - 1 in doubles: fl(21/20) - 1 > fl(0.05) and fl(19/20) - 1 < fl(-0.05),
\* so a change of exactly +5% is UP and of exactly -5% is DOWN
trend(a, b) ==
    IF 20 * b >= 21 * a THEN "UP"
    ELSE IF 20 * b <= 19 * a THEN "DOWN"
    ELSE "FLAT"

\* x, x0, x1 fixed point; result in 0..FP
scaleLinear(x, x0, x1) == clamp(RDiv((x - x0) * FP, x1 - x0), 0, FP)

\* x, best, worst integers; result in 0..FP
scaleInverse(x, best, worst) == clamp(RDiv((worst - x) * FP, worst - best), 0, FP)

PS_MAX == 40
PE_MAX == 80

NOTE_PS == "P/S is extremely high; skipped from scoring (not comparable)."
NOTE_PE == "P/E is extremely high; skipped from scoring (not comparable)."

\* sanitizeMultiples that notes an extreme multiple but still hands it to scoring
sanitizeNoteOnly(pe, ps) ==
    [pe    |-> pe,
     ps    |-> ps,
     notes |-> (IF isNum(ps) /\ ps.v > PS_MAX THEN <<NOTE_PS>> ELSE <<>>)
               \o (IF isNum(pe) /\ pe.v > PE_MAX THEN <<NOTE_PE>> ELSE <<>>)]

sanitizeMultiples(pe, ps) ==
    LET psHigh == isNum(ps) /\ ps.v > PS_MAX
        peHigh == isNum(pe) /\ pe.v > PE_MAX
    IN  [pe    |-> IF peHigh THEN Null ELSE pe,
         ps    |-> IF psHigh THEN Null ELSE ps,
         notes |-> (IF psHigh THEN <<NOTE_PS>> ELSE <<>>)
                   \o (IF peHigh THEN <<NOTE_PE>> ELSE <<>>)]

\* a confidence with strict thresholds
pickConfidenceStrict(cov) ==
    IF cov > 70 THEN "HIGH"
    ELSE IF cov > 35 THEN "MED"
    ELSE "LOW"

\* coverage is usedTotalWeight / 100; cov is usedTotalWeight (percent)
pickConfidence(cov) ==
    IF cov >= 70 THEN "HIGH"
    ELSE IF cov >= 35 THEN "MED"
    ELSE "LOW"

----------------------------------------------------------------------------
(* The recommendation route: GET, from the parsed FinancialsPayload on *)

W_GROWTH == 35
W_MARGIN == 35
W_VALUE == 30

WARN_NONE == "No usable financial/value signals; neutral score used."
WARN_VERY_LOW == "Very low coverage; treat as WATCH (not a strong call)."
WARN_LOW == "Low coverage; treat as WATCH (not a strong call)."

RECURSIVE InsertByYear(_, _)
InsertByYear(r, s) ==
    IF s = <<>> THEN <<r>>
    ELSE IF r.year < Head(s).year THEN <<r>> \o s
    ELSE <<Head(s)>> \o InsertByYear(r, Tail(s))

RECURSIVE SortByYear(_)
\* [...rows].sort((a, b) => a.year - b.year), a stable sort
SortByYear(s) ==
    IF s = <<>> THEN <<>>
    ELSE InsertByYear(s[Len(s)], SortByYear(SubSeq(s, 1, Len(s) - 1)))

\* a growth rate that always takes the year-over-year formula
RevCagrAlwaysYoY(rows) ==
    LET n == Len(rows)
    IN  IF n >= 2 /\ isNum(rows[n - 1].revenue) /\ isNum(rows[n].revenue)
           /\ rows[n - 1].revenue.v # 0
        THEN Num(Ratio(rows[n].revenue.v, rows[n - 1].revenue.v) - FP)
        ELSE Null

\* let revCagr: 3-row CAGR first, else year over year
RevCagr(rows) ==
    LET n == Len(rows)
    IN  IF n >= 3 /\ isNum(rows[1].revenue) /\ isNum(rows[n].revenue)
        THEN cagr(rows[1].revenue.v, rows[n].revenue.v, n - 1)
        ELSE IF n >= 2 /\ isNum(rows[n - 1].revenue) /\ isNum(rows[n].revenue)
                /\ rows[n - 1].revenue.v # 0
        THEN Num(Ratio(rows[n].revenue.v, rows[n - 1].revenue.v) - FP)
        ELSE Null

\* opMargin (field = "opIncome") and fcfMargin (field = "fcf") of the latest row
Margin(rows, field) ==
    LET n == Len(rows)
    IN  IF n >= 1 /\ isNum(rows[n][field]) /\ isNum(rows[n].revenue)
           /\ rows[n].revenue.v # 0
        THEN Num(Ratio(rows[n][field].v, rows[n].revenue.v))
        ELSE Null

Abs(x) == IF x < 0 THEN -x ELSE x

\* a trend on the signed values, without Math.abs
FcfTrendSigned(rows) ==
    LET n == Len(rows)
    IN  IF n >= 2 /\ isNum(rows[n - 1].fcf) /\ isNum(rows[n].fcf)
           /\ rows[n - 1].fcf.v # 0
        THEN trend(rows[n - 1].fcf.v, rows[n].fcf.v)
        ELSE "N/A"

FcfTrend(rows) ==
    LET n == Len(rows)
    IN  IF n >= 2 /\ isNum(rows[n - 1].fcf) /\ isNum(rows[n].fcf)
           /\ rows[n - 1].fcf.v # 0
        THEN trend(Abs(rows[n - 1].fcf.v), Abs(rows[n].fcf.v))
        ELSE "N/A"

\* the used flags kept in one object shared by all requests: a request starts
\* from the flags the previous one left
StickyUsed ==
    IF rec.status = 200
    THEN [growth |-> rec.used.growth, margin |-> rec.used.margin,
          value |-> rec.used.value]
    ELSE [growth |-> FALSE, margin |-> FALSE, value |-> FALSE]

\* const used = { growth: false, margin: false, value: false }, a fresh object
\* in every request
FreshUsed == [growth |-> FALSE, margin |-> FALSE, value |-> FALSE]

\* a normalisation without the neutral 50 for an empty score
ScoreNormNoNeutral(raw, usedTotalWeight) ==
    IF usedTotalWeight = 0 THEN 0
    ELSE clamp((200 * raw + usedTotalWeight * FP) \div (2 * usedTotalWeight * FP),
               0, 100)

\* Math.round((raw / usedTotalWeight) * 100), clamped; 50 when nothing is used
ScoreNorm(raw, usedTotalWeight) ==
    IF usedTotalWeight = 0 THEN 50
    ELSE clamp((200 * raw + usedTotalWeight * FP) \div (2 * usedTotalWeight * FP),
               0, 100)

\* PenaltyFactor with coverage taken as the weight itself, not weight / 100
PenaltyFactorNoScale(usedTotalWeight) == 700 + 300 * usedTotalWeight

\* penaltyFactor = 0.7 + 0.3 * coverage, in thousandths
PenaltyFactor(usedTotalWeight) == 700 + 3 * usedTotalWeight

\* Math.round(scoreNorm * penaltyFactor), clamped.  The double product falls just
\* below the exact tie x.5 at (usedTotalWeight, scoreNorm) = (0, 45), (0, 85),
\* (70, 50), where Math.round therefore rounds down.
ScoreFinal(scoreNorm, usedTotalWeight) ==
    LET exact == (scoreNorm * PenaltyFactor(usedTotalWeight) + 500) \div 1000
        below == <<usedTotalWeight, scoreNorm>> \in {<<0, 45>>, <<0, 85>>, <<70, 50>>}
    IN  clamp(IF below THEN exact - 1 ELSE exact, 0, 100)

\* Number(penaltyFactor.toFixed(2)), in hundredths; the double 0.7 + 0.3 * 0.35
\* is 0.80499..., printed 0.80
PenaltyFixed2(usedTotalWeight) ==
    IF usedTotalWeight = 35 THEN 80
    ELSE (PenaltyFactor(usedTotalWeight) + 5) \div 10

SignalOf(scoreFinal) ==
    IF scoreFinal >= 70 THEN "BUY"
    ELSE IF scoreFinal >= 55 THEN "WATCH"
    ELSE IF scoreFinal >= 40 THEN "HOLD"
    ELSE "AVOID"

LOW_CONF_BELOW == 60

\* an override applied whatever the coverage
AdjustSignalAnyCoverage(lowConf, signal) ==
    IF signal # "WATCH" THEN "WATCH" ELSE signal

\* the override applied to strong BUY calls only
AdjustSignalBuyOnly(lowConf, signal) ==
    IF lowConf /\ signal = "BUY" THEN "WATCH" ELSE signal

\* if (lowConf && signal !== "WATCH") signal = "WATCH"
AdjustSignal(lowConf, signal) ==
    IF lowConf /\ signal # "WATCH" THEN "WATCH" ELSE signal

\* coverage warnings tested one by one, so that they add up
CoverageWarningsIndependent(cov) ==
    (IF cov = 0 THEN <<WARN_NONE>> ELSE <<>>)
    \o (IF cov < 35 THEN <<WARN_VERY_LOW>> ELSE <<>>)
    \o (IF cov >= 35 /\ cov < LOW_CONF_BELOW THEN <<WARN_LOW>> ELSE <<>>)

\* if (coverage === 0) ... else if (coverage < 0.35) ... else if (coverage < 0.6) ...
CoverageWarnings(cov) ==
    IF cov = 0 THEN <<WARN_NONE>>
    ELSE IF cov < 35 THEN <<WARN_VERY_LOW>>
    ELSE IF cov < LOW_CONF_BELOW THEN <<WARN_LOW>>
    ELSE <<>>

\* a total that counts the value component with the margin weight
UsedTotalWeightValueAsMargin(used) ==
    (IF used.growth THEN W_GROWTH ELSE 0)
    + (IF used.margin THEN W_MARGIN ELSE 0)
    + (IF used.value THEN W_MARGIN ELSE 0)

\* const usedTotalWeight = (used.growth ? WEIGHTS.growth : 0) + ...
UsedTotalWeight(used) ==
    (IF used.growth THEN W_GROWTH ELSE 0)
    + (IF used.margin THEN W_MARGIN ELSE 0)
    + (IF used.value THEN W_VALUE ELSE 0)

\* pct: (x * 100).toFixed(1), as a number of tenths of a percent
Pct(x) == IF x >= 0 THEN (x + 5) \div 10 ELSE -((5 - x) \div 10)

\* autoSummary, as the list of the parts joined by " / "
AutoSummary(revCagr, opMargin, fcfMargin, fcfTrend) ==
    << IF isNum(revCagr) THEN <<"Rev CAGR", Pct(revCagr.v)>> ELSE <<"Rev CAGR N/A">>,
       IF isNum(opMargin) THEN <<"OpM", Pct(opMargin.v)>> ELSE <<"OpM N/A">>,
       IF isNum(fcfMargin) THEN <<"FCF M", Pct(fcfMargin.v)>> ELSE <<"FCF M N/A">>,
       <<"FCF Trend", fcfTrend>> >>

\* an explain table whose scores are cut off, not rounded
ExplainTruncated(used, usedTotalWeight, feat, scores, scoreNorm) ==
    [growth   |-> [used |-> used.growth, weight |-> W_GROWTH,
                   revenue_cagr |-> feat.revCagr, score |-> scores.growth \div FP],
     margin   |-> [used |-> used.margin, weight |-> W_MARGIN,
                   op_margin |-> feat.opMargin, fcf_margin |-> feat.fcfMargin,
                   score |-> scores.margin \div FP],
     value    |-> [used |-> used.value, weight |-> W_VALUE,
                   pe_scored |-> feat.pe, ps_scored |-> feat.ps,
                   score |-> scores.value \div FP],
     coverage |-> [used_total_weight |-> usedTotalWeight,
                   coverage |-> usedTotalWeight,
                   penalty_factor |-> PenaltyFixed2(usedTotalWeight),
                   score_norm |-> scoreNorm,
                   raw_total |-> (scores.growth + scores.margin + scores.value)
                                    \div FP]]

\* const explain = { growth, margin, value, coverage }, from the locals
\* feat = [revCagr, opMargin, fcfMargin, pe, ps] (pe, ps sanitized) and
\* scores = [growth, margin, value]; scoreNorm is an integer, so
\* Math.round(scoreNorm) is scoreNorm
Explain(used, usedTotalWeight, feat, scores, scoreNorm) ==
    [growth   |-> [used |-> used.growth, weight |-> W_GROWTH,
                   revenue_cagr |-> feat.revCagr, score |-> Round(scores.growth)],
     margin   |-> [used |-> used.margin, weight |-> W_MARGIN,
                   op_margin |-> feat.opMargin, fcf_margin |-> feat.fcfMargin,
                   score |-> Round(scores.margin)],
     value    |-> [used |-> used.value, weight |-> W_VALUE,
                   pe_scored |-> feat.pe, ps_scored |-> feat.ps,
                   score |-> Round(scores.value)],
     coverage |-> [used_total_weight |-> usedTotalWeight,
                   coverage |-> usedTotalWeight,
                   penalty_factor |-> PenaltyFixed2(usedTotalWeight),
                   score_norm |-> scoreNorm,
                   raw_total |-> Round(scores.growth + scores.margin + scores.value)]]

\* The response body computed from the payload f = [rows, pe, ps, source_note]
Recommendation(f) ==
    LET rows      == SortByYear(f.rows)
        revCagr   == RevCagr(rows)
        opMargin  == Margin(rows, "opIncome")
        fcfMargin == Margin(rows, "fcf")
        fcfTrend  == FcfTrend(rows)
        pe0       == f.pe
        ps0       == f.ps
        mult      == sanitizeMultiples(pe0, ps0)
        pe        == mult.pe
        ps        == mult.ps
        growthScore ==
            IF isNum(revCagr)
            THEN scaleLinear(revCagr.v, -(FP \div 5), (3 * FP) \div 10) * W_GROWTH
            ELSE 0
        marginScore ==
            (IF isNum(opMargin) THEN scaleLinear(opMargin.v, 0, FP \div 4) * 20 ELSE 0)
            + (IF isNum(fcfMargin) THEN scaleLinear(fcfMargin.v, 0, FP \div 5) * 15 ELSE 0)
        valueScore ==
            (IF isNum(pe) THEN scaleInverse(pe.v, 10, 40) * 18 ELSE 0)
            + (IF isNum(ps) THEN scaleInverse(ps.v, 1, 12) * 12 ELSE 0)
        used ==
            [growth |-> FreshUsed.growth \/ isNum(revCagr),
             margin |-> FreshUsed.margin \/ isNum(opMargin) \/ isNum(fcfMargin),
             value  |-> FreshUsed.value \/ isNum(pe) \/ isNum(ps)]
        usedTotalWeight == UsedTotalWeight(used)
        raw         == growthScore + marginScore + valueScore
        scoreNorm   == ScoreNorm(raw, usedTotalWeight)
        scoreFinal  == ScoreFinal(scoreNorm, usedTotalWeight)
        baseSignal  == SignalOf(scoreFinal)
        lowConf     == usedTotalWeight < LOW_CONF_BELOW
        signal      == AdjustSignal(lowConf, baseSignal)
    IN  [status      |-> 200,
         signal      |-> signal,
         score       |-> scoreFinal,
         confidence  |-> pickConfidence(usedTotalWeight),
         source      |-> [financials_note |-> f.source_note,
                          multiples_source |-> "finnhub"],
         penalty     |-> PenaltyFactor(usedTotalWeight),
         diagnostics |-> [score_norm     |-> scoreNorm,
                          coverage       |-> usedTotalWeight,
                          penalty_factor |-> PenaltyFixed2(usedTotalWeight),
                          low_conf       |-> lowConf,
                          base_signal    |-> baseSignal,
                          note           |-> f.source_note],
         used        |-> [growth |-> used.growth, margin |-> used.margin,
                          value |-> used.value,
                          used_total_weight |-> usedTotalWeight],
         breakdown   |-> [growth |-> Round(growthScore), margin |-> Round(marginScore),
                          value |-> Round(valueScore), raw_total |-> Round(raw)],
         summary     |-> [revenue_cagr |-> revCagr, op_margin |-> opMargin,
                          fcf_margin |-> fcfMargin, fcf_trend |-> fcfTrend,
                          pe |-> pe0, ps |-> ps0,
                          auto |-> AutoSummary(revCagr, opMargin, fcfMargin, fcfTrend)],
         explain     |-> Explain(used, usedTotalWeight,
                                 [revCagr |-> revCagr, opMargin |-> opMargin,
                                  fcfMargin |-> fcfMargin, pe |-> pe, ps |-> ps],
                                 [growth |-> growthScore, margin |-> marginScore,
                                  value |-> valueScore],
                                 scoreNorm),
         warnings    |-> mult.notes \o CoverageWarnings(usedTotalWeight)]

\* The response body of the older version of the route (part_008), which has no
\* confidence, source or explain
Recommendation008(f) ==
    LET rows      == SortByYear(f.rows)
        revCagr   == RevCagr(rows)
        opMargin  == Margin(rows, "opIncome")
        fcfMargin == Margin(rows, "fcf")
        fcfTrend  == FcfTrend(rows)
        pe0       == f.pe
        ps0       == f.ps
        mult      == sanitizeMultiples(pe0, ps0)
        pe        == mult.pe
        ps        == mult.ps
        growthScore ==
            IF isNum(revCagr)
            THEN scaleLinear(revCagr.v, -(FP \div 5), (3 * FP) \div 10) * W_GROWTH
            ELSE 0
        marginScore ==
            (IF isNum(opMargin) THEN scaleLinear(opMargin.v, 0, FP \div 4) * 20 ELSE 0)
            + (IF isNum(fcfMargin) THEN scaleLinear(fcfMargin.v, 0, FP \div 5) * 15 ELSE 0)
        valueScore ==
            (IF isNum(pe) THEN scaleInverse(pe.v, 10, 40) * 18 ELSE 0)
            + (IF isNum(ps) THEN scaleInverse(ps.v, 1, 12) * 12 ELSE 0)
        used ==
            [growth |-> isNum(revCagr),
             margin |-> isNum(opMargin) \/ isNum(fcfMargin),
             value  |-> isNum(pe) \/ isNum(ps)]
        usedTotalWeight == UsedTotalWeight(used)
        raw         == growthScore + marginScore + valueScore
        scoreNorm   == ScoreNorm(raw, usedTotalWeight)
        scoreFinal  == ScoreFinal(scoreNorm, usedTotalWeight)
        baseSignal  == SignalOf(scoreFinal)
        lowConf     == usedTotalWeight < LOW_CONF_BELOW
        signal      == AdjustSignal(lowConf, baseSignal)
    IN  [status      |-> 200,
         signal      |-> signal,
         score       |-> scoreFinal,
         penalty     |-> PenaltyFactor(usedTotalWeight),
         diagnostics |-> [score_norm     |-> scoreNorm,
                          coverage       |-> usedTotalWeight,
                          penalty_factor |-> PenaltyFixed2(usedTotalWeight),
                          low_conf       |-> lowConf,
                          base_signal    |-> baseSignal,
                          note           |-> f.source_note],
         used        |-> [growth |-> used.growth, margin |-> used.margin,
                          value |-> used.value,
                          used_total_weight |-> usedTotalWeight],
         breakdown   |-> [growth |-> Round(growthScore), margin |-> Round(marginScore),
                          value |-> Round(valueScore), raw_total |-> Round(raw)],
         summary     |-> [revenue_cagr |-> revCagr, op_margin |-> opMargin,
                          fcf_margin |-> fcfMargin, fcf_trend |-> fcfTrend,
                          pe |-> pe0, ps |-> ps0,
                          auto |-> AutoSummary(revCagr, opMargin, fcfMargin, fcfTrend)],
         warnings    |-> mult.notes \o CoverageWarnings(usedTotalWeight)]

NoRec == [status |-> 0]

\* the financials fetch answered with a non-2xx status
FinHttpError == [ok |-> FALSE, rows |-> <<>>, pe |-> Null, ps |-> Null,
                 source_note |-> ""]

ErrRec(msg) == [status |-> 500, error |-> msg]

\* GET of the recommendation route, after the financials fetch returned f
RecoResponse(f) ==
    IF ~f.ok THEN ErrRec("financials HTTP") ELSE Recommendation(f)

\* GET of the older version of the route
RecoResponse008(f) ==
    IF ~f.ok THEN ErrRec("financials HTTP") ELSE Recommendation008(f)

----------------------------------------------------------------------------
(* The financials route: extractors and merge *)

SourceOf(x, name) == IF isNum(x) THEN name ELSE "none"

Row(y, revenue, opIncome, fcf, name) ==
    [year |-> y, revenue |-> revenue, opIncome |-> opIncome, fcf |-> fcf,
     meta |-> [revenue_source  |-> SourceOf(revenue, name),
               opIncome_source |-> SourceOf(opIncome, name),
               fcf_source      |-> SourceOf(fcf, name)]]

Max(S) == CHOOSE x \in S : \A y \in S : y <= x
Min(S) == CHOOSE x \in S : \A y \in S : x <= y

RECURSIVE SortedSeq(_)
\* Array.from(S).sort((a, b) => a - b)
SortedSeq(S) == IF S = {} THEN <<>> ELSE <<Min(S)>> \o SortedSeq(S \ {Min(S)})

\* s.slice(0, n): the first n
FirstN(s, n) == IF Len(s) <= n THEN s ELSE SubSeq(s, 1, n)

\* s.slice(-n)
LastN(s, n) == IF Len(s) <= n THEN s ELSE SubSeq(s, Len(s) - n + 1, Len(s))

\* a free cash flow that subtracts the capital expenditure with its sign
FcfSigned(cfo, capex) ==
    IF isNum(cfo) /\ isNum(capex) THEN Num(cfo.v - capex.v) ELSE Null

\* cfo - Math.abs(capex) when both are finite
FcfOf(cfo, capex) ==
    IF isNum(cfo) /\ isNum(capex) THEN Num(cfo.v - Abs(capex.v)) ELSE Null

(* ---- SEC company facts ---- *)

REVENUES == "Revenues"
OP_INCOME == "OperatingIncomeLoss"
CFO == "NetCashProvidedByUsedInOperatingActivities"
CAPEX == "PaymentsToAcquirePropertyPlantAndEquipment"

\* facts.facts["us-gaap"][concept].units.USD ?? []
\* a point is [fy, fp, filed, val]; filed is a date as a number, 0 when missing
\* (String(undefined || "") = "" sorts before every date)
PointsOf(facts, concept) ==
    IF concept \in DOMAIN facts THEN facts[concept] ELSE <<>>

\* p.fp === "FY" && isNum(p.val) && Number.isFinite(p.fy || NaN)
IsAnnualPoint(p) == p.fp = "FY" /\ isNum(p.val) /\ isNum(p.fy) /\ p.fy.v # 0

RECURSIVE InsertByFiled(_, _)
\* p goes after every point filed no later than p: the sort is stable
InsertByFiled(p, s) ==
    IF s = <<>> THEN <<p>>
    ELSE IF p.filed < Head(s).filed THEN <<p>> \o s
    ELSE <<Head(s)>> \o InsertByFiled(p, Tail(s))

\* no sort: the points stay in the order of the document
KeepArrayOrder(s) == s

RECURSIVE SortByFiled(_)
SortByFiled(s) ==
    IF s = <<>> THEN <<>>
    ELSE InsertByFiled(s[Len(s)], SortByFiled(SubSeq(s, 1, Len(s) - 1)))

RECURSIVE LastWins(_, _)
\* for (const p of annual) out.set(Number(p.fy), Number(p.val))
LastWins(s, out) ==
    IF s = <<>> THEN out
    ELSE LET p == Head(s)
             y == p.fy.v
         IN  LastWins(Tail(s),
                      [z \in DOMAIN out \cup {y} |-> IF z = y THEN p.val.v ELSE out[z]])

EmptyMap == [z \in {} |-> 0]

\* FY -> value
extractAnnualByFY(facts, concept) ==
    LET pts    == PointsOf(facts, concept)
        annual == SelectSeq(pts, IsAnnualPoint)
    IN  LastWins(SortByFiled(annual), EmptyMap)

MapGet(m, y) == IF y \in DOMAIN m THEN Num(m[y]) ELSE Null

\* rows for the years that have a usable field only: capital expenditure alone
\* does not make a year
buildRowsUsableYears(facts) ==
    LET rev   == extractAnnualByFY(facts, REVENUES)
        op    == extractAnnualByFY(facts, OP_INCOME)
        cfo   == extractAnnualByFY(facts, CFO)
        capex == extractAnnualByFY(facts, CAPEX)
        years == LastN(SortedSeq(DOMAIN rev \cup DOMAIN op
                                 \cup (DOMAIN cfo \cap DOMAIN capex)), KEEP_YEARS)
        rows  == [i \in 1..Len(years) |->
                    Row(years[i], MapGet(rev, years[i]), MapGet(op, years[i]),
                        FcfOf(MapGet(cfo, years[i]), MapGet(capex, years[i])), "sec")]
    IN  [rows     |-> rows,
         coverage |-> [revenue  |-> \E i \in 1..Len(rows) : isNum(rows[i].revenue),
                       opIncome |-> \E i \in 1..Len(rows) : isNum(rows[i].opIncome),
                       fcf      |-> \E i \in 1..Len(rows) : isNum(rows[i].fcf)]]

buildRowsFromSEC(facts) ==
    LET rev   == extractAnnualByFY(facts, REVENUES)
        op    == extractAnnualByFY(facts, OP_INCOME)
        cfo   == extractAnnualByFY(facts, CFO)
        capex == extractAnnualByFY(facts, CAPEX)
        years == LastN(SortedSeq(DOMAIN rev \cup DOMAIN op \cup DOMAIN cfo
                                 \cup DOMAIN capex), KEEP_YEARS)
        rows  == [i \in 1..Len(years) |->
                    Row(years[i], MapGet(rev, years[i]), MapGet(op, years[i]),
                        FcfOf(MapGet(cfo, years[i]), MapGet(capex, years[i])), "sec")]
    IN  [rows     |-> rows,
         coverage |-> [revenue  |-> \E i \in 1..Len(rows) : isNum(rows[i].revenue),
                       opIncome |-> \E i \in 1..Len(rows) : isNum(rows[i].opIncome),
                       fcf      |-> \E i \in 1..Len(rows) : isNum(rows[i].fcf)]]

(* ---- Finnhub financials-reported ---- *)

FH_REVENUES == "us-gaap_Revenues"
FH_OP_INCOME == "us-gaap_OperatingIncomeLoss"
FH_CFO == "us-gaap_NetCashProvidedByUsedInOperatingActivities"
FH_CAPEX == "us-gaap_PaymentsToAcquirePropertyPlantAndEquipment"

\* arr.find((x) => x.concept === conceptName)?.value, when a finite number
pickValue(arr, conceptName) ==
    LET hits == {i \in 1..Len(arr) : arr[i].concept = conceptName}
    IN  IF hits = {} THEN Null
        ELSE LET v == arr[Min(hits)].value
             IN  IF isNum(v) THEN v ELSE Null

\* a report is [year, period, ic, cf]; ic and cf are sequences of [concept, value]
IsFYReport(r) == isNum(r.year) /\ r.period = "FY"

\* byYear[y][0]: the first FY report of year y
FirstReport(reports, y) ==
    reports[Min({i \in 1..Len(reports) : IsFYReport(reports[i]) /\ reports[i].year.v = y})]

parseFinnhubAnnualFY(data) ==
    LET reports == data
        allYears == {reports[i].year.v : i \in {j \in 1..Len(reports) : IsFYReport(reports[j])}}
        years == LastN(SortedSeq(allYears), KEEP_YEARS)
        rows  == [i \in 1..Len(years) |->
                    LET r == FirstReport(reports, years[i])
                    IN  Row(years[i], pickValue(r.ic, FH_REVENUES),
                            pickValue(r.ic, FH_OP_INCOME),
                            FcfOf(pickValue(r.cf, FH_CFO), pickValue(r.cf, FH_CAPEX)),
                            "finnhub")]
    IN  [rows     |-> rows,
         coverage |-> [revenue  |-> \E i \in 1..Len(rows) : isNum(rows[i].revenue),
                       opIncome |-> \E i \in 1..Len(rows) : isNum(rows[i].opIncome),
                       fcf      |-> \E i \in 1..Len(rows) : isNum(rows[i].fcf)]]

\* { pe: isNum(peTTM) ? peTTM : null, ps: isNum(psTTM) ? psTTM : null }
MultiplesOf(metric) ==
    [pe |-> IF isNum(metric.peTTM) THEN metric.peTTM ELSE Null,
     ps |-> IF isNum(metric.psTTM) THEN metric.psTTM ELSE Null]

(* ---- Merge ---- *)

YearsOf(rows) == {rows[i].year : i \in 1..Len(rows)}

\* byYear.get(y).fh / .sec: the last row of that year in the list
RowOf(rows, y) == rows[Max({i \in 1..Len(rows) : rows[i].year = y})]

HasRow(rows, y) == y \in YearsOf(rows)

\* isNum(a?.field) ? a.field : (isNum(b?.field) ? b.field : null), and its source
PickField(fh, sec, y, field) ==
    IF HasRow(fh, y) /\ isNum(RowOf(fh, y)[field])
    THEN [value |-> RowOf(fh, y)[field], source |-> "finnhub"]
    ELSE IF HasRow(sec, y) /\ isNum(RowOf(sec, y)[field])
    THEN [value |-> RowOf(sec, y)[field], source |-> "sec"]
    ELSE [value |-> Null, source |-> "none"]

\* a merge that takes the whole Finnhub row whenever Finnhub has the year
mergeRowsWholeRow(fh, sec) ==
    LET years == LastN(SortedSeq(YearsOf(fh) \cup YearsOf(sec)), KEEP_YEARS)
    IN  [i \in 1..Len(years) |->
            IF HasRow(fh, years[i]) THEN RowOf(fh, years[i]) ELSE RowOf(sec, years[i])]

mergeRowsPreferFinnhub(fh, sec) ==
    LET years == LastN(SortedSeq(YearsOf(fh) \cup YearsOf(sec)), KEEP_YEARS)
    IN  [i \in 1..Len(years) |->
            LET y   == years[i]
                rev == PickField(fh, sec, y, "revenue")
                op  == PickField(fh, sec, y, "opIncome")
                fcf == PickField(fh, sec, y, "fcf")
            IN  [year |-> y, revenue |-> rev.value, opIncome |-> op.value,
                 fcf |-> fcf.value,
                 meta |-> [revenue_source  |-> rev.source,
                           opIncome_source |-> op.source,
                           fcf_source      |-> fcf.source]]]

----------------------------------------------------------------------------
(* Upstream data *)

Pt(fy, fp, filed, val) == [fy |-> fy, fp |-> fp, filed |-> filed, val |-> val]
Str == [k |-> "str", v |-> 0]

\* A filer with four fiscal years, a restated FY2022 revenue, quarterly points,
\* an unusable value and capital expenditure reported as a negative outflow
FactsA ==
    (REVENUES :> << Pt(Num(2023), "FY", 20240201, Num(150)),
                    Pt(Num(2022), "FY", 20240201, Num(120)),
                    Pt(Num(2022), "FY", 20230201, Num(118)),
                    Pt(Num(2021), "FY", 20220201, Num(100)),
                    Pt(Num(2020), "FY", 20210201, Num(90)),
                    Pt(Num(2023), "Q1", 20230501, Num(35)) >>)
    @@ (OP_INCOME :> << Pt(Num(2021), "FY", 20220201, Num(10)),
                        Pt(Num(2022), "FY", 20230201, Num(15)),
                        Pt(Num(2023), "FY", 20240201, Num(22)),
                        Pt(Num(2023), "FY", 0, Num(21)) >>)
    @@ (CFO :> << Pt(Num(2021), "FY", 20220201, Num(9)),
                  Pt(Num(2022), "FY", 20230201, Num(13)),
                  Pt(Num(2023), "FY", 20240201, Num(18)) >>)
    @@ (CAPEX :> << Pt(Num(2021), "FY", 20220201, Num(4)),
                    Pt(Num(2022), "FY", 20230201, Num(-5)),
                    Pt(Num(2023), "FY", 20240201, Str) >>)

\* A filer that tags little: revenue for two years, capital expenditure only
\* for an older year, no operating income
FactsB ==
    (REVENUES :> << Pt(Num(2022), "FY", 20230201, Num(0)),
                    Pt(Num(2023), "FY", 20240201, Num(40)),
                    Pt(Null, "FY", 20240201, Num(41)) >>)
    @@ (CAPEX :> << Pt(Num(2021), "FY", 20220201, Num(3)) >>)

FactsChoices == {FactsA, FactsB}

Item(concept, value) == [concept |-> concept, value |-> value]
Report(year, period, ic, cf) == [year |-> year, period |-> period, ic |-> ic, cf |-> cf]

\* Finnhub with the newest year first, a quarterly report and a second FY2023 report
FhA ==
    << Report(Num(2024), "FY",
              << Item(FH_REVENUES, Num(180)), Item(FH_OP_INCOME, Num(30)) >>,
              << Item(FH_CFO, Num(25)), Item(FH_CAPEX, Num(7)) >>),
       Report(Num(2024), "Q1", << Item(FH_REVENUES, Num(50)) >>, << >>),
       Report(Num(2023), "FY",
              << Item(FH_REVENUES, Num(151)), Item(FH_OP_INCOME, Str) >>,
              << Item(FH_CFO, Num(18)), Item(FH_CAPEX, Num(-6)) >>),
       Report(Num(2023), "FY", << Item(FH_REVENUES, Num(152)) >>, << >>),
       Report(Num(2022), "FY",
              << Item(FH_OP_INCOME, Num(16)) >>,
              << Item(FH_CFO, Num(13)) >>) >>

\* Finnhub with one annual report that carries revenue only
FhB ==
    << Report(Num(2023), "FY", << Item(FH_REVENUES, Num(41)) >>, << >>),
       Report(Str, "FY", << Item(FH_REVENUES, Num(1)) >>, << >>) >>

FhChoices == {FhA, FhB}

Metric(pe, ps) == [peTTM |-> pe, psTTM |-> ps]

MetricChoices == {Metric(Num(18), Num(4)), Metric(Str, Num(45)), Metric(Num(-5), Num(4))}

----------------------------------------------------------------------------
(* The financials route: the process-wide caches and GET *)

\* 7 * 24 * 3600 * 1000 ms and 6 * 3600 * 1000 ms, in hours
MAP_TTL == 168
FACTS_TTL == 6

\* the SEC directory, company_tickers.json: SecTickerRow entries
Directory ==
    << [ticker |-> "aapl", cik_str |-> Num(320193)],
       [ticker |-> "MSFT", cik_str |-> Num(789019)],
       [ticker |-> "GONE", cik_str |-> Null],
       [ticker |-> "", cik_str |-> Num(1)] >>

Ciks == {320193, 789019}

\* String.prototype.toUpperCase on the tickers of the model
ToUpper(t) == IF t = "aapl" THEN "AAPL" ELSE t

\* decodeURIComponent(t).trim().toUpperCase()
toUpperTicker(t) == ToUpper(t)

\* String(cik).replace(/\D/g, "").padStart(10, "0"): the ten-digit string is
\* represented by the number its digits spell
padCik10(cik) == Abs(cik)

RECURSIVE BuildTickerMap(_, _)
\* for (const k of Object.keys(j)) { ...; map.set(ticker.toUpperCase(), padCik10(cik_str)) }
BuildTickerMap(j, map) ==
    IF j = <<>> THEN map
    ELSE LET row == Head(j)
             t   == ToUpper(row.ticker)
         IN  IF row.ticker = "" \/ ~isNum(row.cik_str)
             THEN BuildTickerMap(Tail(j), map)
             ELSE BuildTickerMap(Tail(j),
                      [u \in DOMAIN map \cup {t} |->
                          IF u = t THEN padCik10(row.cik_str.v) ELSE map[u]])

NoTickerMap == [cached |-> FALSE, map |-> <<>>]
NoEntry == [has |-> FALSE, fetchedAt |-> 0, data |-> "none"]

FactsData(id) == IF id = "A" THEN FactsA ELSE FactsB
FhData(id) == IF id = "A" THEN FhA ELSE FhB
MetricData(id) ==
    IF id = "M1" THEN Metric(Num(18), Num(4))
    ELSE IF id = "M2" THEN Metric(Str, Num(45))
    ELSE Metric(Num(-5), Num(4))

\* What the environment holds for one request: SEC_USER_AGENT set or not, how the
\* SEC directory and company-facts endpoints answer ("fail": a non-2xx status),
\* FINNHUB_API_KEY set or not ("nokey") and how the two Finnhub endpoints answer
Worlds ==
    {w \in [ua : BOOLEAN, dir : {"fail", "ok"}, facts : {"fail", "A", "B"},
            fh : {"nokey", "fail", "A", "B"}, mult : {"fail", "M1", "M2", "M3"}] :
        /\ (w.fh = "nokey" => w.mult = "fail")
        /\ (~w.ua => w.dir = "fail" /\ w.facts = "fail" /\ w.fh = "nokey")}

RawTickers == {"", "aapl", "MSFT", "ZZZZ"}

NoMultiples == [pe |-> Null, ps |-> Null]

\* source_note is kept as the list of the parts that the code joins with " "
NoResp == [status |-> 0, error |-> "", source_note |-> <<>>, rows |-> <<>>,
           multiples |-> NoMultiples]

ErrorResp(status, error) == [NoResp EXCEPT !.status = status, !.error = error]

NOTE_NO_CIK == "SEC has no CIK mapping for this ticker."
NOTE_FINNHUB == "Income/CF: Finnhub preferred, SEC used as fallback."
NOTE_SEC == "Income/CF: SEC source (Finnhub unavailable)."
NOTE_FCF == "FCF is computed as CFO - abs(Capex)."
NOTE_TAGS == "Some fields may be unavailable depending on filing / tags."

IdleReq ==
    [pc |-> "idle", ticker |-> "", now |-> 0, cik10 |-> 0,
     secRows |-> <<>>, fhRows |-> <<>>, finnhubOk |-> FALSE,
     multiples |-> NoMultiples,
     world |-> [ua |-> FALSE, dir |-> "fail", facts |-> "fail", fh |-> "nokey",
                mult |-> "fail"],
     fetched |-> {}, failed |-> {}, resp |-> NoResp]

\* catch (err) of GET: { error: "financials failed" }, status 500
Failed(r, what) ==
    [r EXCEPT !.pc = "done", !.failed = @ \cup {what},
              !.resp = ErrorResp(500, "financials failed")]

\* a payload whose note does not look at finnhubOk
RespondFixedNote(r) ==
    [r EXCEPT !.pc = "done",
              !.resp = [status      |-> 200,
                        error       |-> "",
                        source_note |-> <<NOTE_FINNHUB, NOTE_FCF, NOTE_TAGS>>,
                        rows        |-> mergeRowsPreferFinnhub(r.fhRows, r.secRows),
                        multiples   |-> r.multiples]]

\* the merge, the source note and the payload
Respond(r) ==
    [r EXCEPT !.pc = "done",
              !.resp = [status      |-> 200,
                        error       |-> "",
                        source_note |-> << IF r.finnhubOk THEN NOTE_FINNHUB
                                                           ELSE NOTE_SEC,
                                           NOTE_FCF, NOTE_TAGS >>,
                        rows        |-> mergeRowsPreferFinnhub(r.fhRows, r.secRows),
                        multiples   |-> r.multiples]]

\* secParsed = buildRowsFromSEC(facts), then the Finnhub part when a key is set
AfterSec(r, facts) ==
    LET r1 == [r EXCEPT !.secRows = buildRowsFromSEC(facts).rows]
    IN  IF r.world.fh = "nokey" THEN Respond(r1)
        ELSE [r1 EXCEPT !.pc = "fhFetch", !.fetched = @ \cup {"fhFinancials"}]

\* a resolution that asks Finnhub alone when the ticker has no CIK
ResolveFinnhubOnly(r, map) ==
    IF r.ticker \notin DOMAIN map
    THEN IF r.world.fh = "nokey" THEN Respond(r)
         ELSE [r EXCEPT !.pc = "fhFetch", !.fetched = @ \cup {"fhFinancials"}]
    ELSE LET cik == map[r.ticker]
             hit == companyFacts[cik]
             r1  == [r EXCEPT !.cik10 = cik, !.now = clock]
         IN  IF hit.has /\ clock - hit.fetchedAt < FACTS_TTL
             THEN AfterSec(r1, FactsData(hit.data))
             ELSE [r1 EXCEPT !.pc = "factsFetch",
                             !.fetched = @ \cup {"companyFacts"}]

\* map.get(ticker), the no-mapping payload, else fetchSecCompanyFacts up to its fetch
Resolve(r, map) ==
    IF r.ticker \notin DOMAIN map
    THEN [r EXCEPT !.pc = "done",
                   !.resp = [NoResp EXCEPT !.status = 200,
                                           !.source_note = <<NOTE_NO_CIK>>]]
    ELSE LET cik == map[r.ticker]
             hit == companyFacts[cik]
             r1  == [r EXCEPT !.cik10 = cik, !.now = clock]
         IN  IF hit.has /\ clock - hit.fetchedAt < FACTS_TTL
             THEN AfterSec(r1, FactsData(hit.data))
             ELSE [r1 EXCEPT !.pc = "factsFetch",
                             !.fetched = @ \cup {"companyFacts"}]

\* GET up to its first fetch
Begin ==
    /\ req.pc = "idle"
    /\ \E t \in RawTickers, w \in Worlds :
          LET r == [IdleReq EXCEPT !.ticker = toUpperTicker(t), !.world = w,
                                   !.now = clock]
          IN  req' = IF t = ""
                     THEN [r EXCEPT !.pc = "done",
                                    !.resp = ErrorResp(400, "ticker missing")]
                     ELSE IF ~w.ua
                     THEN [r EXCEPT !.pc = "done",
                                    !.resp = ErrorResp(500, "SEC_USER_AGENT missing")]
                     ELSE IF tickerMap.cached /\ clock - tickerMapFetchedAt < MAP_TTL
                     THEN Resolve(r, tickerMap.map)
                     ELSE [r EXCEPT !.pc = "mapFetch", !.fetched = {"tickerMap"}]
    /\ UNCHANGED <<clock, ticks, cacheVars, scoreVars, mergeVars, reconVars, callVars>>

\* the directory fetch of fetchSecTickerMap returns
MapFetched ==
    /\ req.pc = "mapFetch"
    /\ IF req.world.dir = "fail"
       THEN /\ req' = Failed(req, "tickerMap")
            /\ UNCHANGED cacheVars
       ELSE LET map == BuildTickerMap(Directory, <<>>)
            IN  /\ tickerMap' = [cached |-> TRUE, map |-> map]
                /\ tickerMapFetchedAt' = req.now
                /\ req' = Resolve(req, map)
                /\ UNCHANGED companyFacts
    /\ UNCHANGED <<clock, ticks, scoreVars, mergeVars, reconVars, callVars>>

\* the company-facts fetch of fetchSecCompanyFacts returns
FactsFetched ==
    /\ req.pc = "factsFetch"
    /\ IF req.world.facts = "fail"
       THEN /\ req' = Failed(req, "companyFacts")
            /\ UNCHANGED cacheVars
       ELSE /\ companyFacts' =
                 [companyFacts EXCEPT ![req.cik10] =
                     [has |-> TRUE, fetchedAt |-> req.now, data |-> req.world.facts]]
            /\ req' = AfterSec(req, FactsData(req.world.facts))
            /\ UNCHANGED <<tickerMap, tickerMapFetchedAt>>
    /\ UNCHANGED <<clock, ticks, scoreVars, mergeVars, reconVars, callVars>>

\* fetchFinnhubFinancials returns or throws; then the multiples fetch is issued
FhFetched ==
    /\ req.pc = "fhFetch"
    /\ req' = [req EXCEPT
                 !.pc = "multFetch",
                 !.fetched = @ \cup {"fhMultiples"},
                 !.failed = IF req.world.fh = "fail" THEN @ \cup {"fhFinancials"} ELSE @,
                 !.finnhubOk = req.world.fh # "fail",
                 !.fhRows = IF req.world.fh = "fail" THEN <<>>
                            ELSE parseFinnhubAnnualFY(FhData(req.world.fh)).rows]
    /\ UNCHANGED <<clock, ticks, cacheVars, scoreVars, mergeVars, reconVars, callVars>>

\* a multiples step that keeps the multiples only when the financials fetch worked
MultFetchedGated ==
    /\ req.pc = "multFetch"
    /\ req' = Respond([req EXCEPT
                 !.failed = IF req.world.mult = "fail" THEN @ \cup {"fhMultiples"} ELSE @,
                 !.multiples = IF req.world.mult = "fail" \/ ~req.finnhubOk THEN @
                               ELSE MultiplesOf(MetricData(req.world.mult))])
    /\ UNCHANGED <<clock, ticks, cacheVars, scoreVars, mergeVars, reconVars, callVars>>

\* fetchFinnhubMultiples returns or throws (ignored); merge and respond
MultFetched ==
    /\ req.pc = "multFetch"
    /\ req' = Respond([req EXCEPT
                 !.failed = IF req.world.mult = "fail" THEN @ \cup {"fhMultiples"} ELSE @,
                 !.multiples = IF req.world.mult = "fail" THEN @
                               ELSE MultiplesOf(MetricData(req.world.mult))])
    /\ UNCHANGED <<clock, ticks, cacheVars, scoreVars, mergeVars, reconVars, callVars>>

\* the response is sent; the next request may start
Finish ==
    /\ req.pc = "done"
    /\ req' = IdleReq
    /\ UNCHANGED <<clock, ticks, cacheVars, scoreVars, mergeVars, reconVars, callVars>>

MaxTicks == 2
TickSteps == {3, 165}

\* time passes
Tick ==
    /\ ticks < MaxTicks
    /\ \E d \in TickSteps : clock' = clock + d
    /\ ticks' = ticks + 1
    /\ UNCHANGED <<cacheVars, req, scoreVars, mergeVars, reconVars, callVars>>

\* the variables of a part of the model that a specification does not run
ScoreParked ==
    fin = FinHttpError /\ rec = NoRec /\ rpc = "off" /\ prior = <<>> /\ rec8 = NoRec
MergeParked == mfh = <<>> /\ msec = <<>> /\ merged = <<>> /\ mpc = "off"
CallsParked == calls = <<>>
ReconParked ==
    /\ fhData = <<>>
    /\ secFacts = <<>>
    /\ series = <<>>
    /\ spc = "off"
    /\ fyMap = <<>>
    /\ built = <<>>
FinParked ==
    /\ clock = 0
    /\ ticks = 0
    /\ tickerMap = NoTickerMap
    /\ tickerMapFetchedAt = 0
    /\ companyFacts = [c \in Ciks |-> NoEntry]
    /\ req = IdleReq

Init ==
    /\ clock = 0
    /\ ticks = 0
    /\ tickerMap = NoTickerMap
    /\ tickerMapFetchedAt = 0
    /\ companyFacts = [c \in Ciks |-> NoEntry]
    /\ req = IdleReq
    /\ CallsParked
    /\ ScoreParked
    /\ MergeParked
    /\ ReconParked

Next ==
    \/ Begin
    \/ MapFetched
    \/ FactsFetched
    \/ FhFetched
    \/ MultFetched
    \/ Finish
    \/ Tick

Spec == Init /\ [][Next]_vars

----------------------------------------------------------------------------
(* Scoring inputs: the payloads the financials route can deliver *)

BaseYear == 2021

RevVals == {Null, Num(-50), Num(0), Num(100), Num(150)}
OpVals == {Null, Num(22)}
FcfVals == {Null, Num(0), Num(8), Num(-10)}
PeVals == {Null, Num(18), Num(90)}
PsVals == {Null, Num(4), Num(45)}

ScoreRow(y) == [year : {y}, revenue : RevVals, opIncome : OpVals, fcf : FcfVals]

\* ascending, distinct years, at most KEEP_YEARS rows
ScoreRowSeqs ==
    UNION {{s \in [1..n -> UNION {ScoreRow(BaseYear + i) : i \in 0..(n - 1)}] :
                \A i \in 1..n : s[i].year = BaseYear + i - 1} : n \in 0..KEEP_YEARS}

ScorePayloads ==
    [ok : {TRUE}, rows : ScoreRowSeqs, pe : PeVals, ps : PsVals,
     source_note : {"Income/CF: Finnhub preferred, SEC used as fallback."}]
    \cup {FinHttpError}

InitScore ==
    /\ fin \in ScorePayloads
    /\ rec = NoRec
    /\ rpc = "idle"
    /\ prior = <<>>
    /\ rec8 = NoRec
    /\ MergeParked
    /\ ReconParked
    /\ FinParked
    /\ CallsParked

RecoGET ==
    /\ rpc = "idle"
    /\ rec' = RecoResponse(fin)
    /\ rpc' = "done"
    /\ UNCHANGED <<fin, prior, rec8>>
    /\ UNCHANGED <<mergeVars, finVars, reconVars, callVars>>

NextScore == RecoGET

SpecScore == InitScore /\ [][NextScore]_vars


----------------------------------------------------------------------------
(* Merge inputs: the row lists the two extractors can deliver *)

MergeFhYears == (BaseYear + 2)..(BaseYear + 3)
MergeSecYears == BaseYear..(BaseYear + 2)

FhFields == [revenue : {Null, Num(151)}, opIncome : {Null, Num(23)}, fcf : {Null, Num(12)}]
SecFields == [revenue : {Null, Num(150)}, opIncome : {Null, Num(22)}, fcf : {Null, Num(11)}]

\* the rows of the years Y, ascending, with the fields f[y]
SideRows(Y, f, name) ==
    LET years == SortedSeq(Y)
    IN  [i \in 1..Len(years) |->
            Row(years[i], f[years[i]].revenue, f[years[i]].opIncome,
                f[years[i]].fcf, name)]

SidesOf(years, fields, name) ==
    UNION {{SideRows(Y, f, name) : f \in [Y -> fields]} : Y \in SUBSET years}

InitMerge ==
    /\ mfh \in SidesOf(MergeFhYears, FhFields, "finnhub")
    /\ msec \in SidesOf(MergeSecYears, SecFields, "sec")
    /\ merged = <<>>
    /\ mpc = "idle"
    /\ ScoreParked
    /\ FinParked
    /\ CallsParked
    /\ ReconParked

Merge ==
    /\ mpc = "idle"
    /\ merged' = mergeRowsPreferFinnhub(mfh, msec)
    /\ mpc' = "done"
    /\ UNCHANGED <<mfh, msec>>
    /\ UNCHANGED <<scoreVars, finVars, reconVars, callVars>>

NextMerge == Merge

SpecMerge == InitMerge /\ [][NextMerge]_vars

----------------------------------------------------------------------------
(* Claims about the scoring engine (SpecScore) *)

Scored == rpc = "done" /\ rec.status = 200

\* C1: for every financials payload the recommendation has an integer score in
\* 0..100, a coverage in [0, 1] (0..100 percent) and a penalty factor in
\* [0.7, 1.0] (700..1000 thousandths; 70..100 hundredths as reported).
C1_ScoreBounds ==
    Scored =>
        /\ rec.score \in 0..100
        /\ rec.diagnostics.coverage \in 0..100
        /\ rec.penalty \in 700..1000
        /\ rec.diagnostics.penalty_factor \in 70..100

\* a scored three-row payload with full coverage and one with none
C1_Witness ==
    /\ Scored
    /\ Len(fin.rows) = KEEP_YEARS
    /\ rec.diagnostics.coverage = 100
    /\ rec.penalty = 1000
    /\ rec.score > 50

\* C2: whenever coverage is below 0.6 the returned signal is WATCH and low_conf
\* is true, whatever the final score is.
C2_LowConfOverride ==
    (Scored /\ rec.used.used_total_weight < 60) =>
        rec.signal = "WATCH" /\ rec.diagnostics.low_conf

\* the override acted: the score alone said AVOID, the response says WATCH
C2_Witness ==
    /\ Scored
    /\ rec.used.used_total_weight = 35
    /\ rec.diagnostics.base_signal = "AVOID"
    /\ rec.signal = "WATCH"

\* the payload with one field of one row replaced
WithField(f, i, field, x) == [f EXCEPT !.rows[i][field] = x]

\* C3: replacing one absent input field (a row's revenue, opIncome or fcf, or pe,
\* or ps) by a finite value never decreases used_total_weight.
C3_CoverageMonotone ==
    Scored =>
        /\ \A i \in 1..Len(fin.rows) :
             /\ ~isNum(fin.rows[i].revenue) =>
                  \A x \in RevVals \ {Null} :
                     Recommendation(WithField(fin, i, "revenue", x)).used.used_total_weight
                        >= rec.used.used_total_weight
             /\ ~isNum(fin.rows[i].opIncome) =>
                  \A x \in OpVals \ {Null} :
                     Recommendation(WithField(fin, i, "opIncome", x)).used.used_total_weight
                        >= rec.used.used_total_weight
             /\ ~isNum(fin.rows[i].fcf) =>
                  \A x \in FcfVals \ {Null} :
                     Recommendation(WithField(fin, i, "fcf", x)).used.used_total_weight
                        >= rec.used.used_total_weight
        /\ ~isNum(fin.pe) =>
             \A x \in PeVals \ {Null} :
                Recommendation([fin EXCEPT !.pe = x]).used.used_total_weight
                   >= rec.used.used_total_weight
        /\ ~isNum(fin.ps) =>
             \A x \in PsVals \ {Null} :
                Recommendation([fin EXCEPT !.ps = x]).used.used_total_weight
                   >= rec.used.used_total_weight

\* C5: a P/S above 40 (a P/E above 80) is excluded from the value sub-score:
\* used.value and the value score are those of the payload without that multiple,
\* the sanitization warning is present, and summary.ps (summary.pe) still holds
\* the original value.
InWarnings(w) == \E i \in 1..Len(rec.warnings) : rec.warnings[i] = w

C5_Sanitization ==
    Scored =>
        /\ (isNum(fin.ps) /\ fin.ps.v > 40) =>
             LET without == Recommendation([fin EXCEPT !.ps = Null])
             IN  /\ rec.used.value = without.used.value
                 /\ rec.breakdown.value = without.breakdown.value
                 /\ InWarnings(NOTE_PS)
                 /\ rec.summary.ps = fin.ps
        /\ (isNum(fin.pe) /\ fin.pe.v > 80) =>
             LET without == Recommendation([fin EXCEPT !.pe = Null])
             IN  /\ rec.used.value = without.used.value
                 /\ rec.breakdown.value = without.breakdown.value
                 /\ InWarnings(NOTE_PE)
                 /\ rec.summary.pe = fin.pe

\* P/S = 45 next to a usable P/E: value is scored from the P/E alone
C5_Witness ==
    /\ Scored
    /\ fin.ps = Num(45)
    /\ fin.pe = Num(18)
    /\ rec.used.value
    /\ rec.breakdown.value = 13
    /\ rec.summary.ps = Num(45)

----------------------------------------------------------------------------
(* Claims about mergeRowsPreferFinnhub (SpecMerge) *)

\* what the claim says field `field` of year y must be
Expected(y, field) ==
    LET a == {i \in 1..Len(mfh) : mfh[i].year = y}
        b == {i \in 1..Len(msec) : msec[i].year = y}
    IN  IF \E i \in a : isNum(mfh[i][field])
        THEN [value |-> mfh[CHOOSE i \in a : TRUE][field], source |-> "finnhub"]
        ELSE IF \E i \in b : isNum(msec[i][field])
        THEN [value |-> msec[CHOOSE i \in b : TRUE][field], source |-> "sec"]
        ELSE [value |-> Null, source |-> "none"]

\* C4: each of revenue, opIncome and fcf is resolved independently per year: the
\* Finnhub value with provenance 'finnhub' when finite, else the SEC value with
\* provenance 'sec' when finite, else null with provenance 'none'.
C4_FieldIndependence ==
    mpc = "done" =>
        \A i \in 1..Len(merged) :
            LET m == merged[i]
            IN  /\ m.revenue = Expected(m.year, "revenue").value
                /\ m.meta.revenue_source = Expected(m.year, "revenue").source
                /\ m.opIncome = Expected(m.year, "opIncome").value
                /\ m.meta.opIncome_source = Expected(m.year, "opIncome").source
                /\ m.fcf = Expected(m.year, "fcf").value
                /\ m.meta.fcf_source = Expected(m.year, "fcf").source

\* one merged year takes revenue from SEC (Finnhub has the year, without revenue)
\* and fcf from Finnhub
C4_Witness ==
    /\ mpc = "done"
    /\ \E i \in 1..Len(merged) :
          /\ HasRow(mfh, merged[i].year)
          /\ merged[i].meta.revenue_source = "sec"
          /\ merged[i].revenue = Num(150)
          /\ merged[i].meta.fcf_source = "finnhub"
          /\ merged[i].meta.opIncome_source = "none"

----------------------------------------------------------------------------
(* Repeated scoring requests (SpecIdem): the route serves one payload after
   another; an observer keeps one earlier exchange to compare with *)

IdemRows ==
    { <<>>,
      << [year |-> 2021, revenue |-> Num(100), opIncome |-> Num(22), fcf |-> Num(0)],
         [year |-> 2022, revenue |-> Num(100), opIncome |-> Num(22), fcf |-> Num(8)],
         [year |-> 2023, revenue |-> Num(150), opIncome |-> Num(22), fcf |-> Num(8)] >>,
      << [year |-> 2022, revenue |-> Num(0), opIncome |-> Null, fcf |-> Num(8)],
         [year |-> 2023, revenue |-> Num(150), opIncome |-> Null, fcf |-> Null] >>,
      << [year |-> 2023, revenue |-> Num(100), opIncome |-> Num(22), fcf |-> Null] >> }

IdemPayloads ==
    [ok : {TRUE}, rows : IdemRows, pe : PeVals, ps : {Null, Num(4)},
     source_note : {"Income/CF: SEC source (Finnhub unavailable)."}]
    \cup {FinHttpError}

InitIdem ==
    /\ fin \in IdemPayloads
    /\ rec = NoRec
    /\ rpc = "idle"
    /\ prior = <<>>
    /\ rec8 = NoRec
    /\ MergeParked
    /\ ReconParked
    /\ FinParked
    /\ CallsParked

\* the observer keeps the exchange just completed
Remember ==
    /\ rpc = "done"
    /\ prior' = <<fin, rec, FALSE>>
    /\ UNCHANGED <<fin, rec, rpc, rec8>>
    /\ UNCHANGED <<mergeVars, finVars, reconVars, callVars>>

\* the next request arrives with its own payload; prior[3] records that a
\* request with another payload came after the remembered one
NextRequest ==
    /\ rpc = "done"
    /\ fin' \in IdemPayloads
    /\ rpc' = "idle"
    /\ prior' = IF prior # <<>> /\ fin' # prior[1]
                THEN <<prior[1], prior[2], TRUE>> ELSE prior
    /\ UNCHANGED <<rec, rec8>>
    /\ UNCHANGED <<mergeVars, finVars, reconVars, callVars>>

NextIdem == RecoGET \/ Remember \/ NextRequest

SpecIdem == InitIdem /\ [][NextIdem]_vars

----------------------------------------------------------------------------
(* Claims on the financials route, checked under Spec *)

Responded == req.pc = "done"

SecFailed == req.failed \cap {"tickerMap", "companyFacts"} # {}

NoFinnhubProvenance(rows) ==
    \A i \in 1..Len(rows) :
        /\ rows[i].meta.revenue_source # "finnhub"
        /\ rows[i].meta.opIncome_source # "finnhub"
        /\ rows[i].meta.fcf_source # "finnhub"

\* C7: when the SEC directory fetch or the company-facts fetch fails and Finnhub
\* would answer, the request does not fail: it answers 200 with the rows merged
\* from Finnhub's rows alone.
C7_SecFailureNotFatal ==
    (Responded /\ SecFailed /\ req.world.fh \in {"A", "B"}) =>
        /\ req.resp.status = 200
        /\ req.resp.rows =
              mergeRowsPreferFinnhub(parseFinnhubAnnualFY(FhData(req.world.fh)).rows, <<>>)

\* C8: when the Finnhub financials fetch fails and the SEC path succeeded, the
\* answer is a 200 payload whose rows are exactly the SEC rows, with no field of
\* provenance 'finnhub', and whose note says the SEC source was used because
\* Finnhub was unavailable.
C8_FinnhubFailureFallsBackToSec ==
    (Responded /\ "fhFinancials" \in req.failed) =>
        /\ req.resp.status = 200
        /\ req.resp.rows = req.secRows
        /\ NoFinnhubProvenance(req.resp.rows)
        /\ req.resp.source_note[1] = NOTE_SEC

\* the Finnhub financials fetch failed and the response carries the SEC rows
C8_Witness ==
    /\ Responded
    /\ "fhFinancials" \in req.failed
    /\ req.resp.status = 200
    /\ Len(req.resp.rows) = KEEP_YEARS
    /\ \E i \in 1..Len(req.resp.rows) : req.resp.rows[i].meta.revenue_source = "sec"

\* C9 as stated: whenever the Finnhub financials fetch fails, pe and ps of the
\* payload are both null, whatever the outcome of the multiples fetch.
C9_MultiplesNullOnFinnhubFailure ==
    (Responded /\ "fhFinancials" \in req.failed) =>
        req.resp.multiples = NoMultiples

\* C9 amended: when the Finnhub financials fetch fails, pe and ps of the payload
\* are those of the separate multiples fetch: both null when that fetch fails
\* too, the parsed metric values when it succeeds.
C9_MultiplesFollowMultiplesFetch ==
    (Responded /\ "fhFinancials" \in req.failed) =>
        /\ req.resp.status = 200
        /\ req.resp.multiples =
              IF "fhMultiples" \in req.failed THEN NoMultiples
              ELSE MultiplesOf(MetricData(req.world.mult))

\* the financials fetch failed, the multiples fetch did not, and pe is returned
C9_Witness ==
    /\ Responded
    /\ "fhFinancials" \in req.failed
    /\ "fhMultiples" \notin req.failed
    /\ req.resp.multiples.pe = Num(18)
    /\ req.resp.multiples.ps = Num(4)

Unmapped ==
    /\ req.pc # "idle"
    /\ req.ticker # ""
    /\ req.world.ua
    /\ "tickerMap" \notin req.failed
    /\ req.pc # "mapFetch"
    /\ req.ticker \notin DOMAIN BuildTickerMap(Directory, <<>>)

\* C10: a ticker with no entry in the ticker map is answered with HTTP 200, no
\* rows, pe and ps null and the note that the SEC has no CIK mapping, and neither
\* the company-facts fetch nor a Finnhub fetch is issued.
C10_NoMappingEmptyPayload ==
    Unmapped =>
        /\ Responded
        /\ req.resp.status = 200
        /\ req.resp.rows = <<>>
        /\ req.resp.multiples = NoMultiples
        /\ req.resp.source_note = <<NOTE_NO_CIK>>
        /\ req.fetched \cap {"companyFacts", "fhFinancials", "fhMultiples"} = {}

\* an unmapped ticker answered after the directory was fetched, in an environment
\* where Finnhub has a key and would answer
C10_Witness ==
    /\ Unmapped
    /\ Responded
    /\ req.fetched = {"tickerMap"}
    /\ req.world.fh = "A"
    /\ req.resp.status = 200

----------------------------------------------------------------------------
(* Further claims about the scoring engine (SpecScore) *)

\* every field of the payload is absent: no rows or rows of nulls, no multiples
AllAbsent(f) ==
    /\ \A i \in 1..Len(f.rows) :
          ~isNum(f.rows[i].revenue) /\ ~isNum(f.rows[i].opIncome)
             /\ ~isNum(f.rows[i].fcf)
    /\ ~isNum(f.pe)
    /\ ~isNum(f.ps)

\* C11: a payload with every field absent is scored score_norm 50, coverage 0,
\* penalty_factor 0.7, score 35, base_signal AVOID, signal WATCH, low_conf true,
\* with the warning "No usable financial/value signals; neutral score used.".
C11_EmptySeries ==
    (Scored /\ AllAbsent(fin)) =>
        /\ rec.diagnostics.score_norm = 50
        /\ rec.diagnostics.coverage = 0
        /\ rec.diagnostics.penalty_factor = 70
        /\ rec.penalty = 700
        /\ rec.score = 35
        /\ rec.diagnostics.base_signal = "AVOID"
        /\ rec.signal = "WATCH"
        /\ rec.diagnostics.low_conf
        /\ InWarnings(WARN_NONE)

\* three rows of nulls scored
C11_Witness ==
    /\ Scored
    /\ AllAbsent(fin)
    /\ Len(fin.rows) = KEEP_YEARS
    /\ rec.score = 35

\* three rows, each with positive revenue and finite opIncome and fcf, and both
\* multiples present within the sanitization limits
FullSeries(f) ==
    /\ Len(f.rows) = KEEP_YEARS
    /\ \A i \in 1..Len(f.rows) :
          /\ isNum(f.rows[i].revenue) /\ f.rows[i].revenue.v > 0
          /\ isNum(f.rows[i].opIncome)
          /\ isNum(f.rows[i].fcf)
    /\ isNum(f.pe) /\ f.pe.v <= PE_MAX
    /\ isNum(f.ps) /\ f.ps.v <= PS_MAX

\* |latest fcf| exceeds |previous fcf| by more than 5%
FcfUpByMoreThan5(f) ==
    LET n == Len(f.rows)
    IN  20 * Abs(f.rows[n].fcf.v) > 21 * Abs(f.rows[n - 1].fcf.v)

FullyCovered ==
    /\ rec.used.used_total_weight = 100
    /\ rec.diagnostics.coverage = 100
    /\ rec.diagnostics.penalty_factor = 100
    /\ rec.penalty = 1000
    /\ rec.confidence = "HIGH"
    /\ ~rec.diagnostics.low_conf
    /\ rec.signal = rec.diagnostics.base_signal

\* C12 as stated: for a full three-row series with usable multiples all three
\* sub-scores are used (weight 100, coverage 1.0, penalty factor 1.0, confidence
\* HIGH, low_conf false, signal = base_signal) and fcf_trend is UP when
\* |latest fcf| exceeds |previous fcf| by more than 5%.
C12_FullCoverage ==
    (Scored /\ FullSeries(fin)) =>
        /\ FullyCovered
        /\ FcfUpByMoreThan5(fin) => rec.summary.fcf_trend = "UP"

\* C12 amended: the same, with fcf_trend UP when the previous fcf is not 0 and
\* |latest fcf| exceeds |previous fcf| by more than 5%; a previous fcf of exactly
\* 0 gives fcf_trend N/A.
C12_FullCoverageNonzeroPrev ==
    (Scored /\ FullSeries(fin)) =>
        /\ FullyCovered
        /\ (fin.rows[KEEP_YEARS - 1].fcf.v # 0 /\ FcfUpByMoreThan5(fin))
              => rec.summary.fcf_trend = "UP"
        /\ fin.rows[KEEP_YEARS - 1].fcf.v = 0 => rec.summary.fcf_trend = "N/A"

\* revenue 100 -> 150, fcf 8 -> -10, pe 18, ps 4: everything used, trend UP
C12_Witness ==
    /\ Scored
    /\ FullSeries(fin)
    /\ fin.rows[1].revenue = Num(100)
    /\ fin.rows[3].revenue = Num(150)
    /\ fin.rows[2].fcf = Num(8)
    /\ fin.rows[3].fcf = Num(-10)
    /\ fin.pe = Num(18)
    /\ fin.ps = Num(4)
    /\ rec.summary.fcf_trend = "UP"
    /\ rec.used.used_total_weight = 100
    /\ rec.confidence = "HIGH"

\* the sum of the weights of the components marked used in the response
WeightOfUsed ==
    (IF rec.used.growth THEN 35 ELSE 0)
    + (IF rec.used.margin THEN 35 ELSE 0)
    + (IF rec.used.value THEN 30 ELSE 0)

\* C13 as stated: used_total_weight is the sum of the weights (growth 35, margin
\* 35, value 30) of the components marked used, and is one of 0, 35, 65, 70, 100.
C13_UsedWeightValues ==
    Scored =>
        /\ rec.used.used_total_weight = WeightOfUsed
        /\ rec.used.used_total_weight \in {0, 35, 65, 70, 100}

\* C13 amended: used_total_weight is the sum of the weights of the components
\* marked used, and is one of 0, 30, 35, 65, 70, 100 (30: value alone).
C13_UsedWeightIsSum ==
    Scored =>
        /\ rec.used.used_total_weight = WeightOfUsed
        /\ rec.used.used_total_weight \in {0, 30, 35, 65, 70, 100}

\* only the value component is used: no rows, a usable P/E
C13_Witness ==
    /\ Scored
    /\ fin.rows = <<>>
    /\ fin.pe = Num(18)
    /\ rec.used.value /\ ~rec.used.growth /\ ~rec.used.margin
    /\ rec.used.used_total_weight = 30

\* the coverage warnings present in the response
CoverageWarningsIn ==
    {w \in {WARN_NONE, WARN_VERY_LOW, WARN_LOW} : InWarnings(w)}

\* C14 as stated: the coverage warnings are evaluated independently and add up:
\* 'no usable signals' whenever coverage = 0, 'very low coverage' whenever
\* coverage < 0.35 (coverage = 0 included), 'low coverage' whenever
\* 0.35 <= coverage < 0.6, and none of the three when coverage >= 0.6.
C14_WarningsAccumulate ==
    Scored =>
        LET cov == rec.diagnostics.coverage
        IN  /\ cov = 0 => InWarnings(WARN_NONE)
            /\ cov < 35 => InWarnings(WARN_VERY_LOW)
            /\ (cov >= 35 /\ cov < 60) => InWarnings(WARN_LOW)
            /\ cov >= 60 => CoverageWarningsIn = {}

\* C14 amended: exactly one coverage warning is given below 0.6 and none from 0.6
\* on: 'no usable signals' alone when coverage = 0, 'very low coverage' alone
\* when 0 < coverage < 0.35, 'low coverage' alone when 0.35 <= coverage < 0.6; it
\* follows the sanitization notes, which are the only warnings that add up.
C14_OneCoverageWarning ==
    Scored =>
        LET cov == rec.diagnostics.coverage
            n   == Len(rec.warnings)
        IN  /\ CoverageWarningsIn =
                  IF cov = 0 THEN {WARN_NONE}
                  ELSE IF cov < 35 THEN {WARN_VERY_LOW}
                  ELSE IF cov < 60 THEN {WARN_LOW}
                  ELSE {}
            /\ \A i \in 1..n :
                  rec.warnings[i] \in {WARN_NONE, WARN_VERY_LOW, WARN_LOW} => i = n
            /\ (isNum(fin.pe) /\ fin.pe.v > 80) => InWarnings(NOTE_PE)
            /\ (isNum(fin.ps) /\ fin.ps.v > 40) => InWarnings(NOTE_PS)

\* coverage 0 with both multiples sanitized: two notes, then the 'no usable
\* signals' warning and no 'very low coverage' warning
C14_Witness ==
    /\ Scored
    /\ rec.diagnostics.coverage = 0
    /\ rec.warnings = <<NOTE_PS, NOTE_PE, WARN_NONE>>

----------------------------------------------------------------------------
(* Extraction and reconciliation of raw provider data (SpecRecon) *)

ReconFirstYear == 2018
ReconYears == 5

\* the fiscal years Finnhub may report and the ones the SEC may hold revenue for
FhYearPool == (ReconFirstYear + 1)..(ReconFirstYear + ReconYears)
SecYearPool == ReconFirstYear..(ReconFirstYear + ReconYears - 1)

\* the years for which the SEC may hold capital expenditure: one inside the
\* revenue pool and one after it
SecCapexPool == {ReconFirstYear + 1, ReconFirstYear + ReconYears + 1}

\* Finnhub's answer for a set of fiscal years, newest first, followed by a
\* quarterly report of a later year and a report without a usable year
FhReports(Y) ==
    LET ys == SortedSeq(Y)
        n  == Len(ys)
    IN  [i \in 1..n |->
            Report(Num(ys[n + 1 - i]), "FY",
                   << Item(FH_REVENUES, Num(ys[n + 1 - i] - 1900)) >>, << >>)]
        \o << Report(Num(ReconFirstYear + ReconYears + 2), "Q1",
                     << Item(FH_REVENUES, Num(30)) >>, << >>),
              Report(Str, "FY", << Item(FH_REVENUES, Num(1)) >>, << >>) >>

\* company facts with annual revenue for the years R and annual capital
\* expenditure for the years C, a quarterly point and a point without a value
SecFacts(R, C) ==
    LET rs == SortedSeq(R)
        cs == SortedSeq(C)
    IN  (REVENUES :> ([i \in 1..Len(rs) |->
                          Pt(Num(rs[i]), "FY", rs[i] + 1, Num(rs[i] - 1910))]
                      \o << Pt(Num(ReconFirstYear + ReconYears + 3), "Q2", 1, Num(20)),
                            Pt(Num(ReconFirstYear + ReconYears + 4), "FY", 1, Str) >>))
        @@ (CAPEX :> [i \in 1..Len(cs) |-> Pt(Num(cs[i]), "FY", cs[i] + 1, Num(3))])

InitRecon ==
    /\ fhData \in {FhReports(Y) : Y \in SUBSET FhYearPool}
    /\ secFacts \in {SecFacts(R, C) : R \in SUBSET SecYearPool, C \in SUBSET SecCapexPool}
    /\ series = <<>>
    /\ spc = "raw"
    /\ fyMap = <<>>
    /\ built = <<>>
    /\ ScoreParked
    /\ MergeParked
    /\ FinParked
    /\ CallsParked

\* parseFinnhubAnnualFY, buildRowsFromSEC and mergeRowsPreferFinnhub, as GET
\* chains them
Reconcile ==
    /\ spc = "raw"
    /\ series' = mergeRowsPreferFinnhub(parseFinnhubAnnualFY(fhData).rows,
                                        buildRowsFromSEC(secFacts).rows)
    /\ spc' = "done"
    /\ UNCHANGED <<fhData, secFacts, fyMap, built>>
    /\ UNCHANGED <<scoreVars, mergeVars, finVars, callVars>>

NextRecon == Reconcile

SpecRecon == InitRecon /\ [][NextRecon]_vars

----------------------------------------------------------------------------
(* Claims about extraction and reconciliation (SpecRecon) *)

\* the fiscal years of Finnhub's annual reports
FhCoveredYears ==
    {fhData[i].year.v :
        i \in {j \in 1..Len(fhData) : fhData[j].period = "FY" /\ isNum(fhData[j].year)}}

\* the fiscal years of the annual points of one SEC concept
SecConceptYears(concept) ==
    LET pts == IF concept \in DOMAIN secFacts THEN secFacts[concept] ELSE <<>>
    IN  {pts[i].fy.v :
            i \in {j \in 1..Len(pts) :
                      pts[j].fp = "FY" /\ isNum(pts[j].fy) /\ isNum(pts[j].val)}}

SecCoveredYears ==
    SecConceptYears(REVENUES) \cup SecConceptYears(OP_INCOME)
        \cup SecConceptYears(CFO) \cup SecConceptYears(CAPEX)

\* the (up to) n greatest elements of S
Greatest(S, n) == {y \in S : Cardinality({z \in S : z > y}) < n}

\* C15: the rows of the reconciled series have strictly increasing year, there
\* are at most 3 of them, and their years are exactly the (up to) 3 greatest
\* years of the union of the fiscal years that either provider covers.
C15_LatestThreeYears ==
    spc = "done" =>
        /\ \A i \in 1..(Len(series) - 1) : series[i].year < series[i + 1].year
        /\ Len(series) <= 3
        /\ YearsOf(series) = Greatest(FhCoveredYears \cup SecCoveredYears, 3)

\* both providers cover more than 3 years, the SEC an older one that Finnhub lacks
\* and a newer one after Finnhub's last: each extractor and the merge truncate
C15_Witness ==
    /\ spc = "done"
    /\ Cardinality(FhCoveredYears) > 3
    /\ Cardinality(SecCoveredYears) > 3
    /\ Max(SecCoveredYears) > Max(FhCoveredYears)
    /\ Min(SecCoveredYears) < Min(FhCoveredYears)
    /\ Len(series) = 3
    /\ series[1].meta.revenue_source = "finnhub"
    /\ series[3].meta.revenue_source = "none"

----------------------------------------------------------------------------
(* The two cached fetch functions under concurrent callers
   (SpecMapCache, SpecFactsCache) *)

MaxCalls == 3

CallIds == 1..MaxCalls

\* a later state of the SEC directory: one more company listed
Directory2 == Directory \o << [ticker |-> "nvda", cik_str |-> Num(1045810)] >>

DirectoryOf(v) == IF v = "D1" THEN Directory ELSE Directory2

\* how the directory endpoint and the company-facts endpoint may answer
DirAnswers == {"fail", "D1", "D2"}
FactsAnswers == {"fail", "A", "B"}

\* One call: fn is the function called, key its cik10 argument, now the value of
\* Date.now() at its first line, fetches the number of upstream fetches it has
\* issued, answer what its upstream fetch answered, map / data what it returned
NoCall == [pc |-> "idle", fn |-> "none", key |-> 0, now |-> 0, fetches |-> 0,
           map |-> <<>>, data |-> "none", answer |-> "none"]

\* callers start in the order of their ids
MayStart(c) ==
    calls[c].pc = "idle" /\ (IF c = 1 THEN TRUE ELSE calls[c - 1].pc # "idle")

\* fetchSecTickerMap up to its return of the cached map or to its fetch
CallTickerMap(c) ==
    /\ MayStart(c)
    /\ calls' = [calls EXCEPT ![c] =
          IF tickerMap.cached /\ clock - tickerMapFetchedAt < MAP_TTL
          THEN [NoCall EXCEPT !.pc = "returned", !.fn = "map", !.now = clock,
                              !.map = tickerMap.map]
          ELSE [NoCall EXCEPT !.pc = "fetching", !.fn = "map", !.now = clock,
                              !.fetches = 1]]
    /\ UNCHANGED <<clock, ticks, cacheVars, req, scoreVars, mergeVars, reconVars>>

\* a refresh that stores the new map and leaves the timestamp of the old one
TickerMapResponseKeepsStamp(c) ==
    /\ calls[c].pc = "fetching"
    /\ calls[c].fn = "map"
    /\ \E answer \in DirAnswers :
          IF answer = "fail"
          THEN /\ calls' = [calls EXCEPT ![c].pc = "threw", ![c].answer = answer]
               /\ UNCHANGED cacheVars
          ELSE LET map == BuildTickerMap(DirectoryOf(answer), <<>>)
               IN  /\ tickerMap' = [cached |-> TRUE, map |-> map]
                   /\ tickerMapFetchedAt' =
                         IF tickerMap.cached THEN tickerMapFetchedAt ELSE calls[c].now
                   /\ calls' = [calls EXCEPT ![c].pc = "returned", ![c].map = map,
                                                    ![c].answer = answer]
                   /\ UNCHANGED companyFacts
    /\ UNCHANGED <<clock, ticks, req, scoreVars, mergeVars, reconVars>>

\* a refresh that answers with the expired map when the directory fetch fails
TickerMapResponseStaleOnError(c) ==
    /\ calls[c].pc = "fetching"
    /\ calls[c].fn = "map"
    /\ \E answer \in DirAnswers :
          IF answer = "fail"
          THEN /\ calls' = IF tickerMap.cached
                           THEN [calls EXCEPT ![c].pc = "returned",
                                              ![c].map = tickerMap.map,
                                              ![c].answer = answer]
                           ELSE [calls EXCEPT ![c].pc = "threw", ![c].answer = answer]
               /\ UNCHANGED cacheVars
          ELSE LET map == BuildTickerMap(DirectoryOf(answer), <<>>)
               IN  /\ tickerMap' = [cached |-> TRUE, map |-> map]
                   /\ tickerMapFetchedAt' = calls[c].now
                   /\ calls' = [calls EXCEPT ![c].pc = "returned", ![c].map = map,
                                                    ![c].answer = answer]
                   /\ UNCHANGED companyFacts
    /\ UNCHANGED <<clock, ticks, req, scoreVars, mergeVars, reconVars>>

\* the directory fetch of fetchSecTickerMap answers: throw on a non-2xx status,
\* else build the map and store it with the timestamp taken at the call's start
TickerMapResponse(c) ==
    /\ calls[c].pc = "fetching"
    /\ calls[c].fn = "map"
    /\ \E answer \in DirAnswers :
          IF answer = "fail"
          THEN /\ calls' = [calls EXCEPT ![c].pc = "threw", ![c].answer = answer]
               /\ UNCHANGED cacheVars
          ELSE LET map == BuildTickerMap(DirectoryOf(answer), <<>>)
               IN  /\ tickerMap' = [cached |-> TRUE, map |-> map]
                   /\ tickerMapFetchedAt' = calls[c].now
                   /\ calls' = [calls EXCEPT ![c].pc = "returned", ![c].map = map,
                                                    ![c].answer = answer]
                   /\ UNCHANGED companyFacts
    /\ UNCHANGED <<clock, ticks, req, scoreVars, mergeVars, reconVars>>

\* a call that joins the fetch another caller has in flight for the same
\* identifier instead of issuing its own
CallCompanyFactsDedup(c) ==
    /\ MayStart(c)
    /\ \E cik10 \in Ciks :
          LET hit == companyFacts[cik10]
              inFlight == \E d \in CallIds :
                             /\ calls[d].pc = "fetching"
                             /\ calls[d].fn = "facts"
                             /\ calls[d].key = cik10
          IN  calls' = [calls EXCEPT ![c] =
                 IF hit.has /\ clock - hit.fetchedAt < FACTS_TTL
                 THEN [NoCall EXCEPT !.pc = "returned", !.fn = "facts", !.key = cik10,
                                     !.now = clock, !.data = hit.data]
                 ELSE [NoCall EXCEPT !.pc = "fetching", !.fn = "facts", !.key = cik10,
                                     !.now = clock,
                                     !.fetches = IF inFlight THEN 0 ELSE 1]]
    /\ UNCHANGED <<clock, ticks, cacheVars, req, scoreVars, mergeVars, reconVars>>

\* fetchSecCompanyFacts up to its return of the cached payload or to its fetch
CallCompanyFacts(c) ==
    /\ MayStart(c)
    /\ \E cik10 \in Ciks :
          LET hit == companyFacts[cik10]
          IN  calls' = [calls EXCEPT ![c] =
                 IF hit.has /\ clock - hit.fetchedAt < FACTS_TTL
                 THEN [NoCall EXCEPT !.pc = "returned", !.fn = "facts", !.key = cik10,
                                     !.now = clock, !.data = hit.data]
                 ELSE [NoCall EXCEPT !.pc = "fetching", !.fn = "facts", !.key = cik10,
                                     !.now = clock, !.fetches = 1]]
    /\ UNCHANGED <<clock, ticks, cacheVars, req, scoreVars, mergeVars, reconVars>>

\* a response that stores its payload in a new Map holding that entry alone
CompanyFactsResponseNewMap(c) ==
    /\ calls[c].pc = "fetching"
    /\ calls[c].fn = "facts"
    /\ \E answer \in FactsAnswers :
          IF answer = "fail"
          THEN /\ calls' = [calls EXCEPT ![c].pc = "threw", ![c].answer = answer]
               /\ UNCHANGED cacheVars
          ELSE /\ companyFacts' =
                    [k \in Ciks |->
                        IF k = calls[c].key
                        THEN [has |-> TRUE, fetchedAt |-> calls[c].now, data |-> answer]
                        ELSE NoEntry]
               /\ calls' = [calls EXCEPT ![c].pc = "returned", ![c].data = answer,
                                               ![c].answer = answer]
               /\ UNCHANGED <<tickerMap, tickerMapFetchedAt>>
    /\ UNCHANGED <<clock, ticks, req, scoreVars, mergeVars, reconVars>>

\* a response that stamps the entry with the time of its arrival
CompanyFactsResponseStampOnArrival(c) ==
    /\ calls[c].pc = "fetching"
    /\ calls[c].fn = "facts"
    /\ \E answer \in FactsAnswers :
          IF answer = "fail"
          THEN /\ calls' = [calls EXCEPT ![c].pc = "threw", ![c].answer = answer]
               /\ UNCHANGED cacheVars
          ELSE /\ companyFacts' =
                    [companyFacts EXCEPT ![calls[c].key] =
                        [has |-> TRUE, fetchedAt |-> clock, data |-> answer]]
               /\ calls' = [calls EXCEPT ![c].pc = "returned", ![c].data = answer,
                                               ![c].answer = answer]
               /\ UNCHANGED <<tickerMap, tickerMapFetchedAt>>
    /\ UNCHANGED <<clock, ticks, req, scoreVars, mergeVars, reconVars>>

\* the company-facts fetch answers: throw on a non-2xx status, else
\* companyFacts.set(cik10, { fetchedAt: now, data })
CompanyFactsResponse(c) ==
    /\ calls[c].pc = "fetching"
    /\ calls[c].fn = "facts"
    /\ \E answer \in FactsAnswers :
          IF answer = "fail"
          THEN /\ calls' = [calls EXCEPT ![c].pc = "threw", ![c].answer = answer]
               /\ UNCHANGED cacheVars
          ELSE /\ companyFacts' =
                    [companyFacts EXCEPT ![calls[c].key] =
                        [has |-> TRUE, fetchedAt |-> calls[c].now, data |-> answer]]
               /\ calls' = [calls EXCEPT ![c].pc = "returned", ![c].data = answer,
                                               ![c].answer = answer]
               /\ UNCHANGED <<tickerMap, tickerMapFetchedAt>>
    /\ UNCHANGED <<clock, ticks, req, scoreVars, mergeVars, reconVars>>

InitCache ==
    /\ clock = 0
    /\ ticks = 0
    /\ tickerMap = NoTickerMap
    /\ tickerMapFetchedAt = 0
    /\ companyFacts = [c \in Ciks |-> NoEntry]
    /\ req = IdleReq
    /\ calls = [c \in CallIds |-> NoCall]
    /\ ScoreParked
    /\ MergeParked
    /\ ReconParked

\* concurrent callers of fetchSecTickerMap while time passes
NextMapCache ==
    \/ \E c \in CallIds : CallTickerMap(c)
    \/ \E c \in CallIds : TickerMapResponse(c)
    \/ Tick

SpecMapCache == InitCache /\ [][NextMapCache]_vars

\* concurrent callers of fetchSecCompanyFacts while time passes
NextFactsCache ==
    \/ \E c \in CallIds : CallCompanyFacts(c)
    \/ \E c \in CallIds : CompanyFactsResponse(c)
    \/ Tick

SpecFactsCache == InitCache /\ [][NextFactsCache]_vars

----------------------------------------------------------------------------
(* Claims about the caches (SpecFactsCache, SpecMapCache) *)

\* C16: a fetchSecCompanyFacts call that finds an entry for its identifier
\* younger than 6 hours returns the cached payload without an upstream fetch; on
\* a miss or an expired entry it issues exactly one upstream fetch and, when that
\* succeeds, replaces that identifier's entry only; a failed fetch changes no
\* entry.
C16_FactsCachePerKey ==
    [][\A c \in CallIds :
          LET a == calls[c]
              b == calls'[c]
          IN  /\ (a.pc = "idle" /\ b.fn = "facts") =>
                    LET hit == companyFacts[b.key]
                    IN  /\ companyFacts' = companyFacts
                        /\ IF hit.has /\ clock - hit.fetchedAt < 6
                           THEN b.pc = "returned" /\ b.fetches = 0 /\ b.data = hit.data
                           ELSE b.pc = "fetching" /\ b.fetches = 1
              /\ (a.pc = "fetching" /\ a.fn = "facts" /\ b.pc # "fetching") =>
                    /\ b.fetches = 1
                    /\ \A k \in Ciks \ {a.key} : companyFacts'[k] = companyFacts[k]
                    /\ companyFacts'[a.key] =
                          IF b.pc = "returned"
                          THEN [has |-> TRUE, fetchedAt |-> a.now, data |-> b.data]
                          ELSE companyFacts[a.key]
      ]_vars

\* the first call fetched an identifier's facts, the second found them expired
\* and fetched again, the third was served from the cache without a fetch, and
\* the other identifier has no entry
C16_Witness ==
    /\ \A c \in CallIds : calls[c].fn = "facts" /\ calls[c].pc = "returned"
                             /\ calls[c].key = calls[1].key
    /\ calls[1].fetches = 1
    /\ calls[2].fetches = 1
    /\ calls[2].now - calls[1].now >= 6
    /\ calls[3].fetches = 0
    /\ calls[3].data = calls[2].data
    /\ calls[2].data # calls[1].data
    /\ \A k \in Ciks \ {calls[1].key} : ~companyFacts[k].has

\* the maps a completed directory fetch can produce
WholeMaps == {BuildTickerMap(DirectoryOf(v), <<>>) : v \in {"D1", "D2"}}

\* C17: the cached ticker map and its timestamp change only together, in the one
\* step in which a successful directory fetch completes, to the whole map built
\* from that fetch and the timestamp of that same call; and a call made while the
\* cached timestamp is less than 7 days old returns the cached map without an
\* upstream directory fetch.
C17_WholeMapReplacement ==
    [][/\ (tickerMap' # tickerMap \/ tickerMapFetchedAt' # tickerMapFetchedAt) =>
             \E c \in CallIds :
                /\ calls[c].pc = "fetching" /\ calls[c].fn = "map"
                /\ calls'[c].pc = "returned"
                /\ calls'[c].map \in WholeMaps
                /\ tickerMap' = [cached |-> TRUE, map |-> calls'[c].map]
                /\ tickerMapFetchedAt' = calls[c].now
       /\ \A c \in CallIds :
             (calls[c].pc = "idle" /\ calls'[c].fn = "map"
                 /\ tickerMap.cached /\ clock - tickerMapFetchedAt < 7 * 24) =>
                /\ calls'[c].pc = "returned"
                /\ calls'[c].fetches = 0
                /\ calls'[c].map = tickerMap.map
      ]_vars

\* the map was fetched, refreshed 7 days later from a directory that had grown,
\* and a third call was served the new map from the cache
C17_Witness ==
    /\ \A c \in CallIds : calls[c].fn = "map" /\ calls[c].pc = "returned"
    /\ calls[1].fetches = 1
    /\ calls[2].fetches = 1
    /\ calls[2].now - calls[1].now >= 7 * 24
    /\ calls[2].map # calls[1].map
    /\ calls[3].fetches = 0
    /\ calls[3].map = calls[2].map
    /\ tickerMap.map = calls[2].map
    /\ tickerMapFetchedAt = calls[2].now

\* C18: when the directory fetch of a fetchSecTickerMap call fails, the call
\* fails with an error and returns no map, also when an expired map is cached,
\* and the cached map and its timestamp stay as they were.
C18_NoStaleOnError ==
    [][\A c \in CallIds :
          (calls[c].pc = "fetching" /\ calls[c].fn = "map"
              /\ calls'[c].answer = "fail") =>
             /\ calls'[c].pc = "threw"
             /\ calls'[c].map = <<>>
             /\ tickerMap' = tickerMap
             /\ tickerMapFetchedAt' = tickerMapFetchedAt
      ]_vars

\* a refresh failed 7 days after the map was cached: the call threw and the
\* expired map is still cached with its old timestamp
C18_Witness ==
    /\ calls[1].fn = "map" /\ calls[1].pc = "returned" /\ calls[1].fetches = 1
    /\ calls[2].fn = "map" /\ calls[2].pc = "threw" /\ calls[2].answer = "fail"
    /\ calls[2].now - calls[1].now >= 7 * 24
    /\ tickerMap = [cached |-> TRUE, map |-> calls[1].map]
    /\ tickerMapFetchedAt = calls[1].now

----------------------------------------------------------------------------
(* Claims about confidence and growth (SpecScore) *)

\* C19: confidence is HIGH exactly when coverage >= 0.7, MED exactly when
\* 0.35 <= coverage < 0.7 and LOW otherwise; hence low_conf implies that
\* confidence is not HIGH, and confidence LOW implies low_conf.
C19_ConfidenceBands ==
    Scored =>
        LET cov == rec.diagnostics.coverage
        IN  /\ rec.confidence = "HIGH" <=> cov >= 70
            /\ rec.confidence = "MED" <=> (cov >= 35 /\ cov < 70)
            /\ rec.confidence = "LOW" <=> cov < 35
            /\ rec.diagnostics.low_conf => rec.confidence # "HIGH"
            /\ rec.confidence = "LOW" => rec.diagnostics.low_conf

\* a band edge: coverage exactly 0.35 is MED, with low_conf true
C19_Witness ==
    /\ Scored
    /\ rec.diagnostics.coverage = 35
    /\ rec.confidence = "MED"
    /\ rec.diagnostics.low_conf

\* C20: revenue_cagr is null and the growth component is not used whenever an
\* endpoint revenue of its computation is <= 0: the oldest or latest revenue when
\* the compound rate is taken (3 rows, both finite), the previous or latest
\* revenue when the year-over-year rate is taken.
C20_NonPositiveEndpoints ==
    Scored =>
        LET rows     == fin.rows
            n        == Len(rows)
            compound == n >= 3 /\ isNum(rows[1].revenue) /\ isNum(rows[n].revenue)
            yoy      == ~compound /\ n >= 2 /\ isNum(rows[n - 1].revenue)
                           /\ isNum(rows[n].revenue)
        IN  /\ (compound /\ (rows[1].revenue.v <= 0 \/ rows[n].revenue.v <= 0)) =>
                  (rec.summary.revenue_cagr = Null /\ ~rec.used.growth)
            /\ (yoy /\ (rows[n - 1].revenue.v <= 0 \/ rows[n].revenue.v <= 0)) =>
                  (rec.summary.revenue_cagr = Null /\ ~rec.used.growth)

----------------------------------------------------------------------------
(* Claims about the growth formula and the trend (SpecScore) *)

\* the compound rate over 2 intervals of a three-row series, undefined when an
\* endpoint revenue is absent or <= 0
CompoundOf(rows) ==
    IF isNum(rows[1].revenue) /\ isNum(rows[3].revenue)
       /\ rows[1].revenue.v > 0 /\ rows[3].revenue.v > 0
    THEN Num(SqrtRatio(rows[3].revenue.v, rows[1].revenue.v) - FP)
    ELSE Null

\* revenue_cagr is the year-over-year rate of the two most recent rows
IsYoY(rows, x) ==
    LET n == Len(rows)
    IN  /\ n >= 2
        /\ isNum(rows[n - 1].revenue) /\ isNum(rows[n].revenue)
        /\ rows[n - 1].revenue.v # 0
        /\ x = Num(Ratio(rows[n].revenue.v, rows[n - 1].revenue.v) - FP)

\* C21 as stated: with 3 rows revenue_cagr is the compound annual growth rate from
\* the oldest to the latest revenue over 2 intervals, or undefined; with fewer
\* rows it is the year-over-year rate of the two most recent rows, or undefined.
C21_CompoundWithThreeRows ==
    Scored =>
        LET x == rec.summary.revenue_cagr
        IN  IF Len(fin.rows) = 3
            THEN x = Null \/ x = CompoundOf(fin.rows)
            ELSE x = Null \/ IsYoY(fin.rows, x)

\* C21 amended: with 3 rows whose oldest and latest revenue are both present,
\* revenue_cagr is the compound rate over 2 intervals or undefined; with 3 rows
\* whose oldest or latest revenue is absent, and with fewer than 3 rows, it is the
\* year-over-year rate of the two most recent rows or undefined.
C21_CompoundWhenEndpointsPresent ==
    Scored =>
        LET rows == fin.rows
            x    == rec.summary.revenue_cagr
        IN  IF Len(rows) = 3 /\ isNum(rows[1].revenue) /\ isNum(rows[3].revenue)
            THEN x = CompoundOf(rows)
            ELSE x = Null \/ IsYoY(rows, x)

\* three rows with revenue absent, 100, 150: the year-over-year rate 0.5 is
\* returned for a three-row series
C21_Witness ==
    /\ Scored
    /\ Len(fin.rows) = 3
    /\ fin.rows[1].revenue = Null
    /\ fin.rows[2].revenue = Num(100)
    /\ fin.rows[3].revenue = Num(150)
    /\ rec.summary.revenue_cagr = Num(FP \div 2)
    /\ rec.used.growth

\* Payloads whose rows carry a free cash flow only, with pairs of consecutive
\* values exactly 5% apart, less and more
TrendFcfVals ==
    {Null, Num(0), Num(19), Num(20), Num(21), Num(22), Num(-20), Num(-21)}

TrendRow(y) == [year : {y}, revenue : {Null}, opIncome : {Null}, fcf : TrendFcfVals]

TrendRowSeqs ==
    UNION {{s \in [1..n -> UNION {TrendRow(BaseYear + i) : i \in 0..(n - 1)}] :
                \A i \in 1..n : s[i].year = BaseYear + i - 1} : n \in 0..KEEP_YEARS}

TrendPayloads ==
    [ok : {TRUE}, rows : TrendRowSeqs, pe : {Null}, ps : {Null},
     source_note : {"Income/CF: Finnhub preferred, SEC used as fallback."}]

InitTrend ==
    /\ fin \in TrendPayloads
    /\ rec = NoRec
    /\ rpc = "idle"
    /\ prior = <<>>
    /\ rec8 = NoRec
    /\ MergeParked
    /\ ReconParked
    /\ FinParked
    /\ CallsParked

NextTrend == RecoGET

SpecTrend == InitTrend /\ [][NextTrend]_vars

\* C22: fcf_trend is N/A exactly when there is no previous row, or the previous
\* or latest fcf is absent, or the previous fcf is exactly 0; otherwise, with the
\* relative change of |latest fcf| against |previous fcf|, it is UP when the
\* change is strictly greater than +5%, DOWN when strictly less than -5%, and
\* FLAT otherwise, exactly +5% and exactly -5% included.
C22_TrendStrictAtFivePercent ==
    Scored =>
        LET rows == fin.rows
            n    == Len(rows)
            na   == IF n < 2 THEN TRUE
                    ELSE ~isNum(rows[n - 1].fcf) \/ ~isNum(rows[n].fcf)
                         \/ rows[n - 1].fcf.v = 0
            a    == Abs(rows[n - 1].fcf.v)
            b    == Abs(rows[n].fcf.v)
        IN  rec.summary.fcf_trend =
                IF na THEN "N/A"
                ELSE IF 20 * b > 21 * a THEN "UP"
                ELSE IF 20 * b < 19 * a THEN "DOWN"
                ELSE "FLAT"

----------------------------------------------------------------------------
(* Claims about the signal (SpecScore) *)

\* C23: diagnostics.base_signal is the threshold signal of the final score
\* (score >= 70 BUY, 55..69 WATCH, 40..54 HOLD, below 40 AVOID), whatever the
\* low-coverage override does; the returned signal equals base_signal whenever
\* coverage >= 0.6; and a returned BUY, HOLD or AVOID implies coverage >= 0.6.
C23_BaseSignal ==
    Scored =>
        LET base == rec.diagnostics.base_signal
            cov  == rec.diagnostics.coverage
        IN  /\ base = "BUY" <=> rec.score >= 70
            /\ base = "WATCH" <=> (rec.score >= 55 /\ rec.score <= 69)
            /\ base = "HOLD" <=> (rec.score >= 40 /\ rec.score <= 54)
            /\ base = "AVOID" <=> rec.score < 40
            /\ cov >= 60 => rec.signal = base
            /\ rec.signal \in {"BUY", "HOLD", "AVOID"} => cov >= 60

\* coverage 0.65 (growth and value used, no margin) with a score in the BUY
\* band: the BUY is returned unchanged
C23_Witness ==
    /\ Scored
    /\ rec.diagnostics.coverage = 65
    /\ ~rec.diagnostics.low_conf
    /\ rec.score >= 70
    /\ rec.diagnostics.base_signal = "BUY"
    /\ rec.signal = "BUY"

----------------------------------------------------------------------------
(* As-reported extraction of one concept (SpecExtract) *)

MaxPoints == 3

\* the points a USD series may hold: annual points of two fiscal years, filed on
\* one of two dates or without a filed date, plus a quarterly point, a point with
\* a value that is not a number, a point without a fiscal year and one of year 0
PointPool ==
    {Pt(Num(y), "FY", d, Num(v)) :
        y \in {ReconFirstYear, ReconFirstYear + 1}, d \in 0..2, v \in {10, 20}}
    \cup {Pt(Num(ReconFirstYear), "Q1", 2, Num(30)),
          Pt(Num(ReconFirstYear), "FY", 2, Str),
          Pt(Null, "FY", 2, Num(30)),
          Pt(Num(0), "FY", 2, Num(30))}

PointSeqs == UNION {[1..n -> PointPool] : n \in 0..MaxPoints}

InitExtract ==
    /\ fhData = <<>>
    /\ secFacts \in {(REVENUES :> s) : s \in PointSeqs}
    /\ series = <<>>
    /\ spc = "raw"
    /\ fyMap = <<>>
    /\ built = <<>>
    /\ ScoreParked
    /\ MergeParked
    /\ FinParked
    /\ CallsParked

\* const rev = extractAnnualByFY(facts, "Revenues")
Extract ==
    /\ spc = "raw"
    /\ fyMap' = extractAnnualByFY(secFacts, REVENUES)
    /\ spc' = "done"
    /\ UNCHANGED <<fhData, secFacts, series, built>>
    /\ UNCHANGED <<scoreVars, mergeVars, finVars, callVars>>

NextExtract == Extract

SpecExtract == InitExtract /\ [][NextExtract]_vars

\* the points of the series that have fp = FY, a finite value and a finite
\* fiscal year
Considered ==
    LET pts == secFacts[REVENUES]
    IN  {i \in 1..Len(pts) : pts[i].fp = "FY" /\ isNum(pts[i].val) /\ isNum(pts[i].fy)}

\* C24: extractAnnualByFY returns, for each fiscal year it reports, the value of
\* a point with fp = FY, a finite value and that finite fiscal year whose filed
\* date is the greatest among such points of the year; every such point of a
\* fiscal year other than 0 has its year reported; and when a point of the year
\* has a filed date, the value is never taken from one without a filed date.
C24_LatestFiledWins ==
    spc = "done" =>
        LET pts == secFacts[REVENUES]
        IN  /\ \A y \in DOMAIN fyMap :
                  \E i \in Considered :
                     /\ pts[i].fy.v = y
                     /\ pts[i].val.v = fyMap[y]
                     /\ \A j \in Considered :
                           pts[j].fy.v = y => pts[j].filed <= pts[i].filed
                     /\ (\E j \in Considered : pts[j].fy.v = y /\ pts[j].filed > 0)
                           => pts[i].filed > 0
            /\ \A i \in Considered : pts[i].fy.v # 0 => pts[i].fy.v \in DOMAIN fyMap

\* the point filed last comes first in the document, followed by a point of the
\* same year without a filed date and by a quarterly point: the first one's value
\* is returned
C24_Witness ==
    /\ spc = "done"
    /\ secFacts[REVENUES] = << Pt(Num(ReconFirstYear), "FY", 2, Num(20)),
                               Pt(Num(ReconFirstYear), "FY", 0, Num(10)),
                               Pt(Num(ReconFirstYear), "Q1", 2, Num(30)) >>
    /\ fyMap = (ReconFirstYear :> 20)

----------------------------------------------------------------------------
(* Free cash flow in the two extractors (SpecFcf) *)

FcfYears == {ReconFirstYear, ReconFirstYear + 1}

\* what a provider reports for a concept in a year: nothing (Null), a number, or
\* a value that is not a number (Str)
CfoGiven == {Null, Num(50), Num(8), Str}
CapexGiven == {Null, Num(-8), Num(8), Str}

Ledgers == [FcfYears -> [cfo : CfoGiven, capex : CapexGiven]]

\* Finnhub's answer for a ledger: one FY report per year, newest first, whose
\* cash-flow statement holds the concepts the ledger reports
FcfReports(L) ==
    LET ys == SortedSeq(FcfYears)
        n  == Len(ys)
    IN  [i \in 1..n |->
            LET y == ys[n + 1 - i]
            IN  Report(Num(y), "FY", << >>,
                       (IF L[y].cfo = Null THEN << >> ELSE << Item(FH_CFO, L[y].cfo) >>)
                       \o (IF L[y].capex = Null THEN << >>
                           ELSE << Item(FH_CAPEX, L[y].capex) >>))]

\* the SEC company facts for a ledger: one FY point per reported concept and year
FcfFacts(L) ==
    LET cfoYears   == SortedSeq({y \in FcfYears : L[y].cfo # Null})
        capexYears == SortedSeq({y \in FcfYears : L[y].capex # Null})
    IN  (CFO :> [i \in 1..Len(cfoYears) |->
                    Pt(Num(cfoYears[i]), "FY", 1, L[cfoYears[i]].cfo)])
        @@ (CAPEX :> [i \in 1..Len(capexYears) |->
                        Pt(Num(capexYears[i]), "FY", 1, L[capexYears[i]].capex)])

InitFcf ==
    /\ \E L \in Ledgers : fhData = FcfReports(L) /\ secFacts = FcfFacts(L)
    /\ series = <<>>
    /\ spc = "raw"
    /\ fyMap = <<>>
    /\ built = <<>>
    /\ ScoreParked
    /\ MergeParked
    /\ FinParked
    /\ CallsParked

\* const fh = parseFinnhubAnnualFY(...); const sec = buildRowsFromSEC(facts)
Build ==
    /\ spc = "raw"
    /\ built' = [fh  |-> parseFinnhubAnnualFY(fhData),
                 sec |-> buildRowsFromSEC(secFacts)]
    /\ spc' = "done"
    /\ UNCHANGED <<fhData, secFacts, series, fyMap>>
    /\ UNCHANGED <<scoreVars, mergeVars, finVars, callVars>>

NextFcf == Build

SpecFcf == InitFcf /\ [][NextFcf]_vars

\* what Finnhub's report of year y holds for a cash-flow concept
FhGiven(y, concept) ==
    LET R == {i \in 1..Len(fhData) : fhData[i].year = Num(y)}
    IN  IF R = {} THEN Null
        ELSE LET cf == fhData[CHOOSE i \in R : TRUE].cf
                 H  == {j \in 1..Len(cf) : cf[j].concept = concept}
             IN  IF H = {} THEN Null ELSE cf[CHOOSE j \in H : TRUE].value

\* what the SEC facts hold for a concept in fiscal year y
SecGiven(y, concept) ==
    LET pts == secFacts[concept]
        H   == {i \in 1..Len(pts) : pts[i].fy = Num(y)}
    IN  IF H = {} THEN Null ELSE pts[CHOOSE i \in H : TRUE].val

\* the rule for one row: cfo - |capex| with the extractor's provenance when both
\* are finite numbers, else null with provenance "none"
FcfRule(row, cfo, capex, name) ==
    IF isNum(cfo) /\ isNum(capex)
    THEN /\ row.fcf = Num(cfo.v - (IF capex.v < 0 THEN -capex.v ELSE capex.v))
         /\ row.meta.fcf_source = name
    ELSE /\ row.fcf = Null
         /\ row.meta.fcf_source = "none"

\* C25: in both extractors a year's free cash flow is operating cash flow minus
\* the absolute value of capital expenditure when both are finite numbers for
\* that year, and is null with provenance "none" when either is missing or not a
\* finite number; coverage.fcf is true exactly when some emitted row has a
\* non-null fcf.
C25_FreeCashFlow ==
    spc = "done" =>
        /\ \A i \in 1..Len(built.fh.rows) :
              LET row == built.fh.rows[i]
              IN  FcfRule(row, FhGiven(row.year, FH_CFO), FhGiven(row.year, FH_CAPEX),
                          "finnhub")
        /\ \A i \in 1..Len(built.sec.rows) :
              LET row == built.sec.rows[i]
              IN  FcfRule(row, SecGiven(row.year, CFO), SecGiven(row.year, CAPEX), "sec")
        /\ built.fh.coverage.fcf <=>
              \E i \in 1..Len(built.fh.rows) : built.fh.rows[i].fcf # Null
        /\ built.sec.coverage.fcf <=>
              \E i \in 1..Len(built.sec.rows) : built.sec.rows[i].fcf # Null

\* cfo 50 with capex -8 in the first year gives 42 in both extractors; cfo 50
\* without capex in the second year gives null, provenance "none"
C25_Witness ==
    /\ spc = "done"
    /\ SecGiven(ReconFirstYear, CFO) = Num(50)
    /\ SecGiven(ReconFirstYear, CAPEX) = Num(-8)
    /\ SecGiven(ReconFirstYear + 1, CFO) = Num(50)
    /\ SecGiven(ReconFirstYear + 1, CAPEX) = Null
    /\ Len(built.sec.rows) = 2
    /\ Len(built.fh.rows) = 2
    /\ \A e \in {built.sec, built.fh} :
          /\ e.rows[1].fcf = Num(42)
          /\ e.rows[2].fcf = Null
          /\ e.rows[2].meta.fcf_source = "none"
          /\ e.coverage.fcf

----------------------------------------------------------------------------
(* Claims about concurrent company-facts calls (SpecFactsCache) *)

\* the calls that fetched the facts of identifier k themselves and returned
Fetchers(cs, k) ==
    {c \in CallIds : cs[c].fn = "facts" /\ cs[c].key = k
                        /\ cs[c].fetches = 1 /\ cs[c].pc = "returned"}

\* C26: a fetchSecCompanyFacts call that finds its identifier's entry missing or
\* expired while another call is fetching the same identifier issues its own
\* upstream fetch and leaves the other call's fetch alone (no deduplication, no
\* lock); a call whose fetch succeeds returns the payload of its own fetch and
\* leaves all other identifiers' entries untouched; and once two such calls have
\* completed, the identifier's entry is the payload and start time of one of
\* the calls that fetched it.
C26_NoDeduplication ==
    [][/\ \A c, d \in CallIds :
             (/\ c # d
              /\ calls[c].pc = "fetching" /\ calls[c].fn = "facts"
              /\ calls[d].pc = "idle" /\ calls'[d].fn = "facts"
              /\ calls'[d].key = calls[c].key
              /\ ~(companyFacts[calls[c].key].has
                   /\ clock - companyFacts[calls[c].key].fetchedAt < 6)) =>
                /\ calls'[d].pc = "fetching"
                /\ calls'[d].fetches = 1
                /\ calls'[c] = calls[c]
       /\ \A c \in CallIds :
             (calls[c].pc = "fetching" /\ calls[c].fn = "facts"
                 /\ calls'[c].pc = "returned") =>
                /\ calls'[c].data = calls'[c].answer
                /\ calls'[c].data \in {"A", "B"}
                /\ companyFacts'[calls[c].key].data = calls'[c].data
                /\ \A k \in Ciks \ {calls[c].key} : companyFacts'[k] = companyFacts[k]
       /\ \A k \in Ciks :
             Cardinality(Fetchers(calls', k)) >= 2 =>
                \E e \in Fetchers(calls', k) :
                   companyFacts'[k] =
                      [has |-> TRUE, fetchedAt |-> calls'[e].now, data |-> calls'[e].data]
      ]_vars

\* two calls for one identifier started at the same time, both fetched, and got
\* different payloads; the entry holds the first caller's payload, and the
\* other identifier has no entry
C26_Witness ==
    /\ calls[1].fn = "facts" /\ calls[2].fn = "facts"
    /\ calls[1].key = calls[2].key
    /\ calls[1].now = calls[2].now
    /\ calls[1].pc = "returned" /\ calls[2].pc = "returned"
    /\ calls[1].fetches = 1 /\ calls[2].fetches = 1
    /\ calls[1].data = "A" /\ calls[2].data = "B"
    /\ calls[3].pc = "idle"
    /\ companyFacts[calls[1].key] =
          [has |-> TRUE, fetchedAt |-> calls[1].now, data |-> "A"]
    /\ \A k \in Ciks \ {calls[1].key} : ~companyFacts[k].has

\* a cached entry is served only while it is younger than 6 hours by its
\* timestamp, and a timestamp is never later than the arrival of the response
\* that wrote it: no entry is served more than 6 hours after that arrival
FreshnessBounded ==
    /\ \A c \in CallIds :
          (calls[c].pc = "idle" /\ calls'[c].fn = "facts" /\ calls'[c].fetches = 0) =>
             /\ companyFacts[calls'[c].key].has
             /\ clock - companyFacts[calls'[c].key].fetchedAt < 6
    /\ \A k \in Ciks :
          companyFacts'[k] # companyFacts[k] => companyFacts'[k].fetchedAt <= clock

\* C28 as stated: for each identifier the fetchedAt of the cached entry never
\* decreases across any interleaving of concurrent calls, and an entry is never
\* considered fresh for longer than 6 hours after its response arrived.
C28_TimestampMonotone ==
    [][/\ \A k \in Ciks : companyFacts'[k].fetchedAt >= companyFacts[k].fetchedAt
       /\ FreshnessBounded
      ]_vars

\* C28 amended: an entry changes only when the fetch of a call for its
\* identifier succeeds, and then carries that call's start time and payload, so
\* the response that arrives last wins and the timestamp decreases when that
\* call started before the one that wrote the entry; an entry is never
\* considered fresh for longer than 6 hours after its response arrived.
C28_LastResponseWins ==
    [][/\ \A k \in Ciks :
             companyFacts'[k] # companyFacts[k] =>
                \E c \in CallIds :
                   /\ calls[c].pc = "fetching" /\ calls[c].fn = "facts"
                   /\ calls[c].key = k
                   /\ calls'[c].pc = "returned"
                   /\ companyFacts'[k] = [has |-> TRUE, fetchedAt |-> calls[c].now,
                                          data |-> calls'[c].data]
       /\ FreshnessBounded
      ]_vars

\* the second call started 3 hours after the first, both fetched, and the first
\* call's response arrived last: the entry carries the earlier start time
C28_Witness ==
    /\ calls[1].fn = "facts" /\ calls[2].fn = "facts"
    /\ calls[1].key = calls[2].key
    /\ calls[1].pc = "returned" /\ calls[2].pc = "returned"
    /\ calls[1].fetches = 1 /\ calls[2].fetches = 1
    /\ calls[2].now = calls[1].now + 3
    /\ calls[1].data = "A" /\ calls[2].data = "B"
    /\ companyFacts[calls[1].key] =
          [has |-> TRUE, fetchedAt |-> calls[1].now, data |-> "A"]

----------------------------------------------------------------------------
(* Claims about the delivered multiples (Spec) *)

\* C27: the multiples pair of a delivered financials payload has pe and ps each
\* either null or a finite number >= 0, for every metrics map the provider can
\* return.
C27_MultiplesNonNegative ==
    (Responded /\ req.resp.status = 200) =>
        /\ req.resp.multiples.pe = Null
              \/ (isNum(req.resp.multiples.pe) /\ req.resp.multiples.pe.v >= 0)
        /\ req.resp.multiples.ps = Null
              \/ (isNum(req.resp.multiples.ps) /\ req.resp.multiples.ps.v >= 0)

----------------------------------------------------------------------------
(* Claims about empty rows (SpecRecon) *)

AllNull(r) == r.revenue = Null /\ r.opIncome = Null /\ r.fcf = Null

\* the fiscal years of Finnhub's annual reports whose income statement holds a
\* number for revenue or operating income (the reports of this specification
\* carry no cash-flow statement)
FhUsableYears ==
    {y \in FhCoveredYears :
        \E i \in 1..Len(fhData) :
           /\ fhData[i].period = "FY" /\ fhData[i].year = Num(y)
           /\ \E j \in 1..Len(fhData[i].ic) :
                 /\ fhData[i].ic[j].concept \in {FH_REVENUES, FH_OP_INCOME}
                 /\ isNum(fhData[i].ic[j].value)}

\* the fiscal years for which a provider reports a usable field
UsableYears ==
    FhUsableYears \cup SecConceptYears(REVENUES) \cup SecConceptYears(OP_INCOME)
        \cup (SecConceptYears(CFO) \cap SecConceptYears(CAPEX))

\* C29 as stated: every row of the returned series has at least one of revenue,
\* opIncome, fcf non-null; a fiscal year without a usable field never occupies a
\* row slot.
C29_NoEmptyRow ==
    spc = "done" => \A i \in 1..Len(series) : ~AllNull(series[i])

\* C29 amended: a fiscal year without a usable field (only capital expenditure
\* reported) still counts among the years covered: when it is one of the 3 most
\* recent covered years it occupies a row slot, as the latest row if it is the
\* most recent, and its row has revenue, opIncome and fcf null with provenance
\* "none"; every other row has at least one non-null field.
C29_EmptyRowsKeepTheirSlot ==
    spc = "done" =>
        /\ \A y \in Greatest(FhCoveredYears \cup SecCoveredYears, 3) :
              \E i \in 1..Len(series) : series[i].year = y
        /\ \A i \in 1..Len(series) :
              /\ AllNull(series[i]) <=> series[i].year \notin UsableYears
              /\ AllNull(series[i]) =>
                    /\ series[i].meta.revenue_source = "none"
                    /\ series[i].meta.opIncome_source = "none"
                    /\ series[i].meta.fcf_source = "none"

\* three usable years are covered and a later year has capital expenditure
\* only: the latest row is empty and the oldest usable year has lost its slot
C29_Witness ==
    /\ spc = "done"
    /\ Cardinality(UsableYears) = 3
    /\ Len(series) = 3
    /\ AllNull(series[3])
    /\ series[3].year > Max(UsableYears)
    /\ ~AllNull(series[1]) /\ ~AllNull(series[2])
    /\ Min(UsableYears) \notin YearsOf(series)

----------------------------------------------------------------------------
(* The two versions of the recommendation route on one payload (SpecVersions) *)

VersionRow(y) ==
    [year : {y}, revenue : {Null, Num(0), Num(100), Num(150)}, opIncome : OpVals,
     fcf : {Null, Num(8), Num(-10)}]

VersionRowSeqs ==
    UNION {{s \in [1..n -> UNION {VersionRow(BaseYear + i) : i \in 0..(n - 1)}] :
                \A i \in 1..n : s[i].year = BaseYear + i - 1} : n \in 0..KEEP_YEARS}

VersionPayloads ==
    [ok : {TRUE}, rows : VersionRowSeqs, pe : PeVals, ps : PsVals,
     source_note : {"Income/CF: SEC source (Finnhub unavailable)."}]
    \cup {FinHttpError}

InitVersions ==
    /\ fin \in VersionPayloads
    /\ rec = NoRec
    /\ rpc = "idle"
    /\ prior = <<>>
    /\ rec8 = NoRec
    /\ MergeParked
    /\ ReconParked
    /\ FinParked
    /\ CallsParked

\* the older version of the route answers the same payload
RecoGET008 ==
    /\ rec8 = NoRec
    /\ rec8' = RecoResponse008(fin)
    /\ UNCHANGED <<fin, rec, rpc, prior>>
    /\ UNCHANGED <<mergeVars, finVars, reconVars, callVars>>

NextVersions == RecoGET \/ RecoGET008

SpecVersions == InitVersions /\ [][NextVersions]_vars

BothAnswered == rpc = "done" /\ rec8 # NoRec

\* C30: on every financials payload the two versions of the recommendation
\* route return the same status and, on success, identical signal, score,
\* diagnostics, used, breakdown, summary and warnings; the newer version adds
\* confidence, source and explain only, and the values of explain agree with
\* used, breakdown and diagnostics.
C30_VersionsAgree ==
    BothAnswered =>
        /\ rec.status = rec8.status
        /\ rec.status # 200 => rec = rec8
        /\ rec.status = 200 =>
              /\ DOMAIN rec \ DOMAIN rec8 = {"confidence", "source", "explain"}
              /\ \A field \in DOMAIN rec8 : rec[field] = rec8[field]
              /\ \A part \in {"growth", "margin", "value"} :
                    /\ rec.explain[part].used = rec.used[part]
                    /\ rec.explain[part].score = rec.breakdown[part]
              /\ rec.explain.coverage.used_total_weight = rec.used.used_total_weight
              /\ rec.explain.coverage.raw_total = rec.breakdown.raw_total
              /\ rec.explain.coverage.coverage = rec.diagnostics.coverage
              /\ rec.explain.coverage.penalty_factor = rec.diagnostics.penalty_factor
              /\ rec.explain.coverage.score_norm = rec.diagnostics.score_norm

\* both versions answered a three-row payload with pe 90 and ps 4: both report
\* the raw pe in summary and the sanitization note, the newer one explains that
\* pe was not scored
C30_Witness ==
    /\ BothAnswered
    /\ rec.status = 200
    /\ Len(fin.rows) = KEEP_YEARS
    /\ fin.pe = Num(90)
    /\ fin.ps = Num(4)
    /\ rec8.summary.pe = Num(90)
    /\ rec8.warnings = rec.warnings
    /\ rec.warnings # <<>>
    /\ rec.explain.value.pe_scored = Null
    /\ rec.explain.growth.score > 0
    /\ rec8.score = rec.score

=============================================================================
